---- MODULE Spec2Model ----
(***************************************************************************)
(* Model of the llm-council backend: the provider query gateway            *)
(* (backend/llm_client.py), the configuration resolver                     *)
(* (backend/config.py, backend/council_config.py) and the three-stage      *)
(* council pipeline (backend/council.py).                                  *)
(*                                                                         *)
(* Text is modelled as a sequence of tokens.  A model spec such as         *)
(* "openai:gpt" is <<"openai", ":", "gpt">>; a model answer is a sequence   *)
(* over the tokens the ranking parser distinguishes.  Python's None is the *)
(* value None (for texts) or Null (for objects); a dict is a sequence of   *)
(* [key, value] pairs with unique keys in insertion order.                 *)
(***************************************************************************)
EXTENDS Integers, Sequences, FiniteSets, TLC

\* ------------------------------------------------------------------ bounds

\* Largest number of entries of LLM_COUNCIL_MODELS explored.
MaxModels == 2

\* Largest council explored when only the labelling of Stage 2 is run.
MaxLabels == 28

\* The longest ranking text, in tokens.
MaxText == 5

\* The longest message list converted.
MaxMessages == 4

\* The longest model spec parsed on its own, in tokens.
MaxSpec == 4

\* The most rankers that rank one and the same single response.
MaxAlone == 11

\* The most rankers that rank two responses in one and the same order.
MaxBoth == 1

\* ----------------------------------------------------------------- helpers

\* Python's None where a text or a model spec is expected ...
None == <<"None">>

\* ... and where a dict or an object is expected.
Null == [null |-> TRUE]

\* No exception is propagating.
NoExc == "no exception"

Range(s) == {s[i] : i \in 1..Len(s)}

RECURSIVE SeqsUpTo(_, _)
SeqsUpTo(S, n) ==
    IF n = 0 THEN {<<>>}
    ELSE LET shorter == SeqsUpTo(S, n - 1)
         IN  shorter \cup {Append(s, x) : s \in {t \in shorter : Len(t) = n - 1}, x \in S}

\* [x for x in s if x not in S]
RECURSIVE Without(_, _)
Without(s, S) ==
    IF s = <<>> THEN <<>>
    ELSE (IF Head(s) \notin S THEN <<Head(s)>> ELSE <<>>) \o Without(Tail(s), S)

\* Index of the first occurrence of x in s, 0 when absent.
RECURSIVE IndexFrom(_, _, _)
IndexFrom(s, x, i) ==
    IF i > Len(s) THEN 0 ELSE IF s[i] = x THEN i ELSE IndexFrom(s, x, i + 1)

FirstIndex(s, x) == IndexFrom(s, x, 1)

\* Python dict: d[k] = v (an existing key keeps its position).
DictKeys(d) == [i \in 1..Len(d) |-> d[i].key]

DictHas(d, k) == \E i \in 1..Len(d) : d[i].key = k

DictGet(d, k) == d[FirstIndex(DictKeys(d), k)].value

DictSet(d, k, v) ==
    IF DictHas(d, k)
    THEN [i \in 1..Len(d) |-> IF d[i].key = k THEN [key |-> k, value |-> v] ELSE d[i]]
    ELSE Append(d, [key |-> k, value |-> v])

\* {k: v for k, v in zip(keys, values)}
RECURSIVE DictFromZip(_, _, _)
DictFromZip(d, keys, values) ==
    IF keys = <<>> \/ values = <<>> THEN d
    ELSE DictFromZip(DictSet(d, Head(keys), Head(values)), Tail(keys), Tail(values))

\* ------------------------------------------------ llm_client: model specs

\* str.strip() on a token sequence: blanks are the token " ".
RECURSIVE LStrip(_)
LStrip(s) == IF s # <<>> /\ Head(s) = " " THEN LStrip(Tail(s)) ELSE s

RECURSIVE RStrip(_)
RStrip(s) ==
    IF s # <<>> /\ s[Len(s)] = " " THEN RStrip(SubSeq(s, 1, Len(s) - 1)) ELSE s

Strip(s) == RStrip(LStrip(s))

\* str.lower(): the only upper-case tokens explored are provider names.
LowerToken(t) ==
    CASE t = "OpenAI" -> "openai"
      [] t = "Gemini" -> "gemini"
      [] OTHER -> t

Lower(s) == [i \in 1..Len(s) |-> LowerToken(s[i])]

PROVIDERS == {"openrouter", "openai", "gemini", "anthropic", "glm", "qwen", "grok"}

\* A parser that splits at the last ":" of the spec.
parse_model_spec_last_colon(spec) ==
    LET s == Strip(spec)
        colons == {i \in 1..Len(s) : s[i] = ":"}
        c == IF colons = {} THEN 0 ELSE CHOOSE i \in colons : \A j \in colons : j <= i
    IN  IF c # 0
        THEN LET p == Lower(Strip(SubSeq(s, 1, c - 1)))
             IN  <<IF p = <<>> THEN <<"openrouter">> ELSE p,
                   Strip(SubSeq(s, c + 1, Len(s)))>>
        ELSE <<<<"openrouter">>, s>>

\* (provider, model_name): the provider is a token sequence, a registered
\* provider being the one-token sequence of its name.
parse_model_spec(spec) ==
    LET s == Strip(spec)
        c == FirstIndex(s, ":")
    IN  IF c # 0
        THEN LET p == Lower(Strip(SubSeq(s, 1, c - 1)))
             IN  <<IF p = <<>> THEN <<"openrouter">> ELSE p,
                   Strip(SubSeq(s, c + 1, Len(s)))>>
        ELSE <<<<"openrouter">>, s>>

ProviderOf(spec) == parse_model_spec(spec)[1]

\* PROVIDERS.get(provider) is not None
Registered(provider) == Len(provider) = 1 /\ provider[1] \in PROVIDERS

\* ------------------------------------------------------ config: settings

\* Settings that config.py gives a default value when the environment is silent.
DefaultSettings ==
    {"OPENROUTER_API_URL", "OPENAI_API_BASE", "GEMINI_API_BASE",
     "ANTHROPIC_API_BASE", "GROK_API_BASE", "QWEN_API_BASE"}

\* A resolver that does not look at ANTHROPIC_API_VERSION.
RequiredSettingsWithoutVersion(name) ==
    CASE name = "openrouter" -> <<"OPENROUTER_API_KEY">>
      [] name = "openai" -> <<"OPENAI_API_KEY", "OPENAI_API_BASE">>
      [] name = "gemini" -> <<"GEMINI_API_KEY", "GEMINI_API_BASE">>
      [] name = "anthropic" -> <<"ANTHROPIC_API_KEY", "ANTHROPIC_API_BASE">>
      [] name = "glm" -> <<"GLM_API_KEY", "GLM_API_BASE">>
      [] name = "qwen" -> <<"QWEN_API_KEY", "QWEN_API_BASE">>
      [] name = "grok" -> <<"GROK_API_KEY", "GROK_API_BASE">>

\* The settings a provider's adapter and the resolver look at, in the
\* resolver's order.
RequiredSettings(name) ==
    CASE name = "openrouter" -> <<"OPENROUTER_API_KEY">>
      [] name = "openai" -> <<"OPENAI_API_KEY", "OPENAI_API_BASE">>
      [] name = "gemini" -> <<"GEMINI_API_KEY", "GEMINI_API_BASE">>
      [] name = "anthropic" ->
            <<"ANTHROPIC_API_KEY", "ANTHROPIC_API_BASE", "ANTHROPIC_API_VERSION">>
      [] name = "glm" -> <<"GLM_API_KEY", "GLM_API_BASE">>
      [] name = "qwen" -> <<"QWEN_API_KEY", "QWEN_API_BASE">>
      [] name = "grok" -> <<"GROK_API_KEY", "GROK_API_BASE">>

\* settings: the set of setting names whose value is truthy.
_missing_env_for_provider(provider, settings) ==
    IF Registered(provider)
    THEN Without(RequiredSettings(provider[1]), settings)
    ELSE <<"UNSUPPORTED_PROVIDER">> \o provider

_normalize_model_spec(spec) == Strip(spec)

\* config.py: the module globals computed from the environment.  models is
\* LLM_COUNCIL_MODELS after the split on commas (entries stripped, empty
\* entries dropped); chairman and title are the values of LLM_CHAIRMAN_MODEL
\* and TITLE_MODEL, None when unset or empty; the record keeps them beside
\* the globals computed from them.
LoadConfigModule(settings, models, chairman, title) ==
    LET chairman_model ==
            IF chairman # None THEN chairman
            ELSE IF models # <<>> THEN models[1] ELSE None
    IN  [settings |-> settings,
         LLM_CHAIRMAN_MODEL |-> chairman,
         TITLE_MODEL_ENV |-> title,
         COUNCIL_MODELS |-> models,
         CHAIRMAN_MODEL |-> chairman_model,
         TITLE_MODEL |-> IF title # None THEN title ELSE chairman_model]

\* ------------------------------------------- council_config: the resolver

ConfigFailure(spec, provider, error_type, missing) ==
    [model_spec |-> spec, provider |-> provider,
     error_type |-> error_type, missing |-> missing]

\* A council loop that drops a misconfigured model without a record.
RECURSIVE FilterCouncilModelsSilently(_, _, _)
FilterCouncilModelsSilently(models, settings, acc) ==
    IF models = <<>> THEN acc
    ELSE LET normalized_spec == _normalize_model_spec(Head(models))
             missing == _missing_env_for_provider(ProviderOf(normalized_spec), settings)
         IN  FilterCouncilModelsSilently(
                 Tail(models), settings,
                 IF missing # <<>> THEN acc
                 ELSE [acc EXCEPT !.effective_models = Append(@, normalized_spec)])

\* The loop over config.COUNCIL_MODELS: acc = [effective_models, failures].
RECURSIVE FilterCouncilModels(_, _, _)
FilterCouncilModels(models, settings, acc) ==
    IF models = <<>> THEN acc
    ELSE LET normalized_spec == _normalize_model_spec(Head(models))
             provider == ProviderOf(normalized_spec)
             missing == _missing_env_for_provider(provider, settings)
         IN  FilterCouncilModels(
                 Tail(models), settings,
                 IF missing # <<>>
                 THEN [acc EXCEPT !.failures =
                         Append(@, ConfigFailure(normalized_spec, provider,
                                                 "config_error", missing))]
                 ELSE [acc EXCEPT !.effective_models = Append(@, normalized_spec)])

\* A chairman step that takes the configured chairman as it is.
ResolveChairmanAsConfigured(cfgmod, effective_models, failures) ==
    LET normalized_chairman ==
            IF cfgmod.CHAIRMAN_MODEL # None
            THEN _normalize_model_spec(cfgmod.CHAIRMAN_MODEL) ELSE None
    IN  IF normalized_chairman # None /\ normalized_chairman # <<>>
        THEN [chairman_model |-> normalized_chairman, failures |-> failures]
        ELSE IF effective_models = <<>>
        THEN [chairman_model |-> None, failures |-> failures]
        ELSE [chairman_model |-> effective_models[1], failures |-> failures]

\* A chairman step that falls back without a record.
ResolveChairmanUnrecorded(cfgmod, effective_models, failures) ==
    LET normalized_chairman ==
            IF cfgmod.CHAIRMAN_MODEL # None
            THEN _normalize_model_spec(cfgmod.CHAIRMAN_MODEL) ELSE None
    IN  IF effective_models = <<>>
        THEN [chairman_model |-> None, failures |-> failures]
        ELSE IF normalized_chairman \in Range(effective_models)
        THEN [chairman_model |-> normalized_chairman, failures |-> failures]
        ELSE [chairman_model |-> effective_models[1], failures |-> failures]

\* The chairman step: [chairman_model, failures].
ResolveChairman(cfgmod, effective_models, failures) ==
    LET explicit_chairman == cfgmod.CHAIRMAN_MODEL
        \* a spec of blanks only is truthy and normalizes to the empty spec
        normalized_chairman ==
            IF explicit_chairman # None
            THEN _normalize_model_spec(explicit_chairman) ELSE None
        truthy == normalized_chairman # None /\ normalized_chairman # <<>>
    IN  IF effective_models = <<>>
        THEN [chairman_model |-> None, failures |-> failures]
        ELSE IF truthy /\ normalized_chairman \in Range(effective_models)
        THEN [chairman_model |-> normalized_chairman, failures |-> failures]
        ELSE IF truthy
        THEN [chairman_model |-> effective_models[1],
              failures |-> Append(failures,
                  ConfigFailure(explicit_chairman, ProviderOf(normalized_chairman),
                                "invalid_chairman", <<>>))]
        ELSE [chairman_model |-> effective_models[1], failures |-> failures]

\* The title step: [title_model, failures].
ResolveTitle(cfgmod, chairman_model, failures) ==
    LET raw_title == cfgmod.TITLE_MODEL
        title_model == IF raw_title # None THEN _normalize_model_spec(raw_title) ELSE None
    IN  IF title_model # None /\ title_model # <<>>
        THEN LET provider == ProviderOf(title_model)
                 missing == _missing_env_for_provider(provider, cfgmod.settings)
             IN  IF missing # <<>>
                 THEN [title_model |-> chairman_model,
                       failures |-> Append(failures,
                           ConfigFailure(raw_title, provider, "config_error", missing))]
                 ELSE [title_model |-> title_model, failures |-> failures]
        ELSE [title_model |-> chairman_model, failures |-> failures]

load_council_config(cfgmod) ==
    LET kept == FilterCouncilModels(cfgmod.COUNCIL_MODELS, cfgmod.settings,
                                    [effective_models |-> <<>>, failures |-> <<>>])
        ch == ResolveChairman(cfgmod, kept.effective_models, kept.failures)
        ti == ResolveTitle(cfgmod, ch.chairman_model, ch.failures)
    IN  [council_models |-> kept.effective_models,
         chairman_model |-> ch.chairman_model,
         title_model |-> ti.title_model,
         failures |-> ti.failures]

\* --------------------------------------------- llm_client: query gateway

\* The settings whose absence makes a provider's adapter raise ConfigError.
AdapterSettings(name) ==
    CASE name = "openrouter" -> {"OPENROUTER_API_KEY", "OPENROUTER_API_URL"}
      [] name = "openai" -> {"OPENAI_API_KEY", "OPENAI_API_BASE"}
      [] name = "gemini" -> {"GEMINI_API_KEY", "GEMINI_API_BASE"}
      [] name = "anthropic" ->
            {"ANTHROPIC_API_KEY", "ANTHROPIC_API_BASE", "ANTHROPIC_API_VERSION"}
      [] name = "glm" -> {"GLM_API_KEY", "GLM_API_BASE"}
      [] name = "qwen" -> {"QWEN_API_KEY", "QWEN_API_BASE"}
      [] name = "grok" -> {"GROK_API_KEY", "GROK_API_BASE"}

\* The adapters that return message.get("content") as it is.
ChatCompletionsFamily == {"openrouter", "openai", "grok", "glm", "qwen"}

\* The answers a backend is taken to give.
Texts ==
    {<<"prose", "FINAL RANKING:", "1.", "Response B", "2.", "Response A">>,
     <<"Response A", "prose">>}

ModelResponse(content) == [content |-> content]

Ok(response) == [kind |-> "ok", response |-> response, status |-> 0]

Raises(kind, status) == [kind |-> kind, response |-> Null, status |-> status]

\* What one call of the provider's adapter can do: raise ConfigError before
\* any request when a setting is missing; otherwise return a response (whose
\* content the chat-completions adapters may leave None), or raise
\* httpx.HTTPStatusError from raise_for_status(), or raise anything else
\* (transport error, timeout, unexpected JSON shape).
AdapterOutcomes(name, settings) ==
    IF ~(AdapterSettings(name) \subseteq settings)
    THEN {Raises("ConfigError", 0)}
    ELSE {Ok(ModelResponse(t)) : t \in Texts}
         \cup (IF name \in ChatCompletionsFamily THEN {Ok(ModelResponse(None))} ELSE {})
         \cup {Raises("HTTPStatusError", 401), Raises("HTTPStatusError", 500),
               Raises("Exception", 0)}

NoAdapter == [kind |-> "not_called", response |-> Null, status |-> 0]

\* A gateway that routes an unregistered provider to the OpenRouter adapter.
SelectedOutcomesDefaultOpenRouter(model_spec, settings) ==
    IF Registered(ProviderOf(model_spec))
    THEN AdapterOutcomes(ProviderOf(model_spec)[1], settings)
    ELSE AdapterOutcomes("openrouter", settings)

\* The outcomes of the adapter query_model selects; no adapter is called
\* for a provider that is not registered.
SelectedOutcomes(model_spec, settings) ==
    IF Registered(ProviderOf(model_spec))
    THEN AdapterOutcomes(ProviderOf(model_spec)[1], settings)
    ELSE {NoAdapter}

Returns(value, diagnostic) == [exc |-> NoExc, value |-> value, diagnostic |-> diagnostic]

Propagates(exc) == [exc |-> exc, value |-> Null, diagnostic |-> ""]

\* query_model without its last handler (except Exception).
query_model_no_catch_all(model_spec, outcome) ==
    IF ~Registered(ProviderOf(model_spec)) THEN Returns(Null, "unknown provider")
    ELSE CASE outcome.kind = "ok" -> Returns(outcome.response, "")
           [] outcome.kind = "ConfigError" -> Returns(Null, "Config error")
           [] outcome.kind = "HTTPStatusError" ->
                Returns(Null, IF outcome.status = 401 THEN "401 Unauthorized"
                              ELSE "HTTP error")
           [] OTHER -> Propagates(outcome.kind)

\* query_model with the outcome of the adapter call it awaits.
query_model(model_spec, outcome) ==
    IF ~Registered(ProviderOf(model_spec)) THEN Returns(Null, "unknown provider")
    ELSE CASE outcome.kind = "ok" -> Returns(outcome.response, "")
           [] outcome.kind = "ConfigError" -> Returns(Null, "Config error")
           [] outcome.kind = "HTTPStatusError" ->
                Returns(Null, IF outcome.status = 401 THEN "401 Unauthorized"
                              ELSE "HTTP error")
           [] OTHER -> Returns(Null, "Error querying")

\* What a task holds once query_model has returned or raised.
TaskResult(r) == [exc |-> r.exc, value |-> r.value]

\* --------------------------------------------------- council: the stages

UserQuery == <<"question">>

Letters ==
    <<"A", "B", "C", "D", "E", "F", "G", "H", "I", "J", "K", "L", "M",
      "N", "O", "P", "Q", "R", "S", "T", "U", "V", "W", "X", "Y", "Z">>

\* The tokens matching Response [A-Z].
ResponseKeys ==
    <<"Response A", "Response B", "Response C", "Response D", "Response E",
      "Response F", "Response G", "Response H", "Response I", "Response J",
      "Response K", "Response L", "Response M", "Response N", "Response O",
      "Response P", "Response Q", "Response R", "Response S", "Response T",
      "Response U", "Response V", "Response W", "Response X", "Response Y",
      "Response Z">>

\* chr(65 + i) for i = 0, 1, ...: after "Z" come the ASCII characters 91 to 95.
LabelChars == Letters \o <<"[", "\\", "]", "^", "_">>

\* f"Response {label}" for every label that chr(65 + i) gives.
LabelKeys ==
    ResponseKeys
    \o <<"Response [", "Response \\", "Response ]", "Response ^", "Response _">>

\* Tokens matching \d+\.
NumberTokens == {"1.", "2.", "3."}

\* text.split("FINAL RANKING:")[1]: the text between the first marker and
\* the next one (or the end).
AfterMarker(text) ==
    LET first == FirstIndex(text, "FINAL RANKING:")
        rest == SubSeq(text, first + 1, Len(text))
        next == FirstIndex(rest, "FINAL RANKING:")
    IN  IF next = 0 THEN rest ELSE SubSeq(rest, 1, next - 1)

\* re.findall(r'Response [A-Z]', text)
RECURSIVE LooseMatches(_)
LooseMatches(text) ==
    IF text = <<>> THEN <<>>
    ELSE (IF Head(text) \in Range(ResponseKeys) THEN <<Head(text)>> ELSE <<>>)
         \o LooseMatches(Tail(text))

\* The "Response X" part of each match of \d+\.\s*Response [A-Z]
RECURSIVE NumberedMatches(_)
NumberedMatches(text) ==
    IF Len(text) < 2 THEN <<>>
    ELSE IF text[1] \in NumberTokens /\ text[2] \in Range(ResponseKeys)
    THEN <<text[2]>> \o NumberedMatches(SubSeq(text, 3, Len(text)))
    ELSE NumberedMatches(Tail(text))

\* A parser that reads nothing from a text without the marker.
parse_ranking_marker_only(ranking_text) ==
    IF FirstIndex(ranking_text, "FINAL RANKING:") # 0
    THEN LET ranking_section == AfterMarker(ranking_text)
             numbered_matches == NumberedMatches(ranking_section)
         IN  IF numbered_matches # <<>> THEN numbered_matches
             ELSE LooseMatches(ranking_section)
    ELSE <<>>

\* A parser that scans the whole text when the section gives nothing.
parse_ranking_whole_text_fallback(ranking_text) ==
    IF FirstIndex(ranking_text, "FINAL RANKING:") # 0
       /\ LooseMatches(AfterMarker(ranking_text)) # <<>>
    THEN LET ranking_section == AfterMarker(ranking_text)
             numbered_matches == NumberedMatches(ranking_section)
         IN  IF numbered_matches # <<>> THEN numbered_matches
             ELSE LooseMatches(ranking_section)
    ELSE LooseMatches(ranking_text)

\* parse_ranking_from_text on a text; on None the membership test raises
\* TypeError (ParseRaises).
ParseRaises(ranking_text) == ranking_text = None

parse_ranking_from_text(ranking_text) ==
    IF FirstIndex(ranking_text, "FINAL RANKING:") # 0
    THEN LET ranking_section == AfterMarker(ranking_text)
             numbered_matches == NumberedMatches(ranking_section)
         IN  IF numbered_matches # <<>> THEN numbered_matches
             ELSE LooseMatches(ranking_section)
    ELSE LooseMatches(ranking_text)

\* stage1_collect_responses, after query_models_parallel returned responses.
RECURSIVE Stage1Results(_)
Stage1Results(resp) ==
    IF resp = <<>> THEN <<>>
    ELSE (IF Head(resp).value # Null
          THEN <<[model |-> Head(resp).key, response |-> Head(resp).value.content]>>
          ELSE <<>>)
         \o Stage1Results(Tail(resp))

Models(results) == [i \in 1..Len(results) |-> results[i].model]

\* label_to_model of stage2_collect_rankings
LabelToModel(results) ==
    DictFromZip(<<>>, SubSeq(LabelKeys, 1, Len(results)), Models(results))

\* A ranking prompt that names the model of each response.
RankingPromptNamed(user_query, results) ==
    [kind |-> "ranking", question |-> user_query,
     responses |-> [i \in 1..Len(results) |->
                       [label |-> LabelChars[i], response |-> results[i].response,
                        model |-> results[i].model]]]

\* The ranking prompt: the question and the labelled responses.
RankingPrompt(user_query, results) ==
    [kind |-> "ranking", question |-> user_query,
     responses |-> [i \in 1..Len(results) |->
                       [label |-> LabelChars[i], response |-> results[i].response]]]

\* The result loop of stage2_collect_rankings: it raises when a response
\* that is not None has content None.
Stage2Raises(resp) ==
    \E i \in 1..Len(resp) : resp[i].value # Null /\ ParseRaises(resp[i].value.content)

\* A result loop that keeps only the rankings in which a label was found.
RECURSIVE Stage2ResultsParseable(_)
Stage2ResultsParseable(resp) ==
    IF resp = <<>> THEN <<>>
    ELSE (IF Head(resp).value # Null
             /\ parse_ranking_from_text(Head(resp).value.content) # <<>>
          THEN <<[model |-> Head(resp).key,
                  ranking |-> Head(resp).value.content,
                  parsed_ranking |-> parse_ranking_from_text(Head(resp).value.content)]>>
          ELSE <<>>)
         \o Stage2ResultsParseable(Tail(resp))

RECURSIVE Stage2Results(_)
Stage2Results(resp) ==
    IF resp = <<>> THEN <<>>
    ELSE (IF Head(resp).value # Null
          THEN <<[model |-> Head(resp).key,
                  ranking |-> Head(resp).value.content,
                  parsed_ranking |-> parse_ranking_from_text(Head(resp).value.content)]>>
          ELSE <<>>)
         \o Stage2Results(Tail(resp))

\* A failure loop that stops at the first record.
RECURSIVE RuntimeFailuresFirstOnly(_, _, _)
RuntimeFailuresFirstOnly(specs, answered, stage) ==
    IF specs = <<>> THEN <<>>
    ELSE IF Head(specs) \notin Range(answered)
    THEN <<[model_spec |-> Head(specs), stage |-> stage, error_type |-> "runtime_failure"]>>
    ELSE RuntimeFailuresFirstOnly(Tail(specs), answered, stage)

\* A failure loop without the membership test.
RuntimeFailuresAll(specs, answered, stage) ==
    [i \in 1..Len(specs) |->
        [model_spec |-> specs[i], stage |-> stage, error_type |-> "runtime_failure"]]

\* A failure loop that tracks Stage 1 only.
RuntimeFailuresStage1Only(specs, answered, stage) ==
    IF stage = "stage1"
    THEN LET absent == SelectSeq(specs, LAMBDA spec : spec \notin Range(answered))
         IN  [i \in 1..Len(absent) |->
                 [model_spec |-> absent[i], stage |-> stage,
                  error_type |-> "runtime_failure"]]
    ELSE <<>>

\* The runtime failure records run_full_council appends for one stage.
RECURSIVE RuntimeFailures(_, _, _)
RuntimeFailures(specs, answered, stage) ==
    IF specs = <<>> THEN <<>>
    ELSE (IF Head(specs) \notin Range(answered)
          THEN <<[model_spec |-> Head(specs), stage |-> stage,
                  error_type |-> "runtime_failure"]>>
          ELSE <<>>)
         \o RuntimeFailures(Tail(specs), answered, stage)

ChairmanPrompt(user_query, s1, s2) ==
    [kind |-> "chairman", question |-> user_query,
     stage1 |-> s1,
     stage2 |-> [i \in 1..Len(s2) |-> [model |-> s2[i].model, ranking |-> s2[i].ranking]]]

\* ---------------------------------------------------- council: aggregation

\* The positions of one parsed ranking added to model_positions.
RECURSIVE AddPositions(_, _, _, _)
AddPositions(model_positions, parsed, position, l2m) ==
    IF position > Len(parsed) THEN model_positions
    ELSE AddPositions(
            IF DictHas(l2m, parsed[position])
            THEN LET model_name == DictGet(l2m, parsed[position])
                 IN  DictSet(model_positions, model_name,
                             (IF DictHas(model_positions, model_name)
                              THEN DictGet(model_positions, model_name) ELSE <<>>)
                             \o <<position>>)
            ELSE model_positions,
            parsed, position + 1, l2m)

RECURSIVE ModelPositions(_, _, _)
ModelPositions(model_positions, s2, l2m) ==
    IF s2 = <<>> THEN model_positions
    ELSE ModelPositions(
            AddPositions(model_positions, parse_ranking_from_text(Head(s2).ranking), 1, l2m),
            Tail(s2), l2m)

RECURSIVE Sum(_)
Sum(s) == IF s = <<>> THEN 0 ELSE Head(s) + Sum(Tail(s))

\* round(total / count, 2) in hundredths (ties to the even hundredth).
Round2(total, count) ==
    LET q == (100 * total) \div count
        r == (100 * total) % count
    IN  IF 2 * r > count THEN q + 1
        ELSE IF 2 * r < count THEN q
        ELSE IF q % 2 = 0 THEN q ELSE q + 1

\* list.sort(key=average_rank): a stable insertion.
RECURSIVE InsertSorted(_, _)
InsertSorted(sorted, e) ==
    IF sorted = <<>> THEN <<e>>
    ELSE IF e.average_rank < Head(sorted).average_rank THEN <<e>> \o sorted
    ELSE <<Head(sorted)>> \o InsertSorted(Tail(sorted), e)

RECURSIVE SortByAverage(_, _)
SortByAverage(sorted, entries) ==
    IF entries = <<>> THEN sorted
    ELSE SortByAverage(InsertSorted(sorted, Head(entries)), Tail(entries))

\* An aggregation that counts the rankings instead of the positions.
calculate_aggregate_rankings_by_ballots(s2, l2m) ==
    LET model_positions == ModelPositions(<<>>, s2, l2m)
        aggregate ==
            [i \in 1..Len(model_positions) |->
                [model |-> model_positions[i].key,
                 average_rank |-> Round2(Sum(model_positions[i].value), Len(s2)),
                 rankings_count |-> Len(s2)]]
    IN  SortByAverage(<<>>, aggregate)

\* An aggregation whose sort sees the entries in the reverse order.
calculate_aggregate_rankings_reversed(s2, l2m) ==
    LET model_positions == ModelPositions(<<>>, s2, l2m)
        n == Len(model_positions)
        aggregate ==
            [i \in 1..n |->
                [model |-> model_positions[n + 1 - i].key,
                 average_rank |-> Round2(Sum(model_positions[n + 1 - i].value),
                                         Len(model_positions[n + 1 - i].value)),
                 rankings_count |-> Len(model_positions[n + 1 - i].value)]]
    IN  SortByAverage(<<>>, aggregate)

calculate_aggregate_rankings(s2, l2m) ==
    LET model_positions == ModelPositions(<<>>, s2, l2m)
        aggregate ==
            [i \in 1..Len(model_positions) |->
                [model |-> model_positions[i].key,
                 average_rank |-> Round2(Sum(model_positions[i].value),
                                         Len(model_positions[i].value)),
                 rankings_count |-> Len(model_positions[i].value)]]
    IN  SortByAverage(<<>>, aggregate)

\* ------------------------------------------------------------ the state

VARIABLES
    config,             \* backend.config: settings and the configured models
    cfg,                \* run_full_council: the effective configuration
    pc,                 \* the state of the pipeline run
    phase,              \* where the run is inside that state
    calls,              \* every query_model call issued, in issue order
    completed,          \* the calls of the stage being awaited, in completion order
    responses,          \* the mapping query_models_parallel returned last
    stage1_results,
    stage2_results,
    label_to_model,
    aggregate_rankings,
    runtime_failures,
    stage3_result,
    ret,                \* what run_full_council returned
    gateway,            \* one query_model call on its own
    title_call,         \* one generate_conversation_title call on its own
    conversion          \* one message list and its two conversions

vars == <<config, cfg, pc, phase, calls, completed, responses, stage1_results,
          stage2_results, label_to_model, aggregate_rankings, runtime_failures,
          stage3_result, ret, gateway, title_call, conversion>>

run_vars == <<cfg, pc, phase, calls, completed, responses, stage1_results,
              stage2_results, label_to_model, aggregate_rankings,
              runtime_failures, stage3_result, ret>>

\* The configurations explored.
CouncilSpecs ==
    {<<"vendor/model">>, <<"openai", ":", "gpt">>, <<"google", ":", "gemini">>}

ChairmanChoices == {None, <<"openai", ":", "gpt">>, <<"google", ":", "gemini">>}

TitleChoices == {None, <<"google", ":", "gemini">>}

KeySettings == {"OPENROUTER_API_KEY", "OPENAI_API_KEY"}

Configs ==
    {LoadConfigModule(DefaultSettings \cup keys, models, chairman, title) :
        keys \in SUBSET KeySettings, models \in SeqsUpTo(CouncilSpecs, MaxModels),
        chairman \in ChairmanChoices, title \in TitleChoices}

RunInit ==
    /\ cfg = Null
    /\ pc = "Idle"
    /\ phase = "start"
    /\ calls = <<>>
    /\ completed = <<>>
    /\ responses = <<>>
    /\ stage1_results = <<>>
    /\ stage2_results = <<>>
    /\ label_to_model = <<>>
    /\ aggregate_rankings = <<>>
    /\ runtime_failures = <<>>
    /\ stage3_result = Null
    /\ ret = Null

Init ==
    /\ config \in Configs
    /\ RunInit
    /\ gateway = Null
    /\ title_call = Null
    /\ conversion = Null

\* ------------------------------------------- llm_client: parallel dispatch

Call(stage, model, prompt) ==
    [stage |-> stage, model |-> model, prompt |-> prompt,
     status |-> "pending", result |-> [exc |-> NoExc, value |-> Null]]

\* tasks = [query_model(model, messages) for model in models]
NewTasks(stage, models, prompt) ==
    [i \in 1..Len(models) |-> Call(stage, models[i], prompt)]

\* The indices in calls of the tasks of a stage, in dispatch order.
Tasks(stage) ==
    LET RECURSIVE From(_)
        From(i) == IF i > Len(calls) THEN <<>>
                   ELSE (IF calls[i].stage = stage THEN <<i>> ELSE <<>>) \o From(i + 1)
    IN  From(1)

\* A gather that resumes on the first task to finish.
GatherFirst(tasks) == \E i \in Range(tasks) : calls[i].status = "done"

\* await asyncio.gather(*tasks) resumes once every task has finished ...
GatherDone(tasks) == \A i \in Range(tasks) : calls[i].status = "done"

\* ... or as soon as one of them has raised.
GatherRaised(tasks) ==
    \E i \in Range(tasks) : calls[i].status = "done" /\ calls[i].result.exc # NoExc

\* A mapping that pairs the models with the results in completion order.
query_models_parallel_zip_completed(tasks, done) ==
    DictFromZip(<<>>,
                [k \in 1..Len(tasks) |-> calls[tasks[k]].model],
                [k \in 1..Len(done) |-> calls[done[k]].result.value])

\* A mapping filled as the tasks complete.
query_models_parallel_as_completed(tasks, done) ==
    DictFromZip(<<>>,
                [k \in 1..Len(done) |-> calls[done[k]].model],
                [k \in 1..Len(done) |-> calls[done[k]].result.value])

\* {model: response for model, response in zip(models, responses)}: gather
\* gives the results in the order of the tasks; done is the completion order.
query_models_parallel(tasks, done) ==
    DictFromZip(<<>>,
                [k \in 1..Len(tasks) |-> calls[tasks[k]].model],
                [k \in 1..Len(tasks) |-> calls[tasks[k]].result.value])

StageOf(state) == IF state = "Stage1" THEN "stage1"
                  ELSE IF state = "Stage2" THEN "stage2" ELSE "stage3"

\* One pending query_model call finishes: the adapter it selected succeeds
\* or fails, and query_model returns (or raises).
CallComplete(i) ==
    /\ phase = "awaiting"
    /\ calls[i].status = "pending"
    /\ \E outcome \in SelectedOutcomes(calls[i].model, config.settings) :
          calls' = [calls EXCEPT ![i].status = "done",
                                 ![i].result = TaskResult(query_model(calls[i].model, outcome))]
    /\ completed' = Append(completed, i)
    /\ UNCHANGED <<config, cfg, pc, phase, responses, stage1_results, stage2_results,
                   label_to_model, aggregate_rankings, runtime_failures,
                   stage3_result, ret, gateway, title_call, conversion>>

\* query_models_parallel returns to the stage that awaits it.
GatherReturn ==
    /\ pc \in {"Stage1", "Stage2"}
    /\ phase = "awaiting"
    /\ LET tasks == Tasks(StageOf(pc))
       IN  /\ GatherDone(tasks) \/ GatherRaised(tasks)
           /\ IF GatherRaised(tasks)
              THEN phase' = "raised" /\ UNCHANGED responses
              ELSE /\ phase' = "returned"
                   /\ responses' = query_models_parallel(tasks, completed)
    /\ UNCHANGED <<config, cfg, pc, calls, completed, stage1_results, stage2_results,
                   label_to_model, aggregate_rankings, runtime_failures,
                   stage3_result, ret, gateway, title_call, conversion>>

\* ------------------------------------------------ council: run_full_council

ErrorResult(advice) ==
    [model |-> <<"error">>, response |-> <<"All models failed to respond.", advice>>]

\* A return that files the runtime failures among the config failures.
ReturnedMerged(s1, s2, s3, metadata) ==
    [stage1_results |-> s1, stage2_results |-> s2, stage3_result |-> s3,
     metadata |-> [metadata EXCEPT
                      !.failures = metadata.failures \o metadata.runtime_failures]]

Returned(s1, s2, s3, metadata) ==
    [stage1_results |-> s1, stage2_results |-> s2, stage3_result |-> s3,
     metadata |-> metadata]

\* An early return that forgets the resolver's failures.
NoModelsResultWithoutFailures(c) ==
    Returned(<<>>, <<>>, ErrorResult("Please check LLM_COUNCIL_MODELS and API keys."),
             [failures |-> <<>>, runtime_failures |-> <<>>])

\* An early return whose metadata holds the runtime failures only.
NoModelsResultRuntimeOnly(c) ==
    Returned(<<>>, <<>>, ErrorResult("Please check LLM_COUNCIL_MODELS and API keys."),
             [runtime_failures |-> <<>>])

\* A run that never checks for an empty Stage 1.
NoStage1ResponseUnchecked(s1) == FALSE

\* if not cfg.council_models: the early return
NoModelsResult(c) ==
    Returned(<<>>, <<>>, ErrorResult("Please check LLM_COUNCIL_MODELS and API keys."),
             [failures |-> c.failures, runtime_failures |-> <<>>])

\* if not stage1_results
NoStage1Response(s1) == s1 = <<>>

\* cfg = load_council_config()
LoadConfig ==
    /\ pc = "Idle"
    /\ cfg' = load_council_config(config)
    /\ pc' = "Stage1"
    /\ phase' = "start"
    /\ UNCHANGED <<config, calls, completed, responses, stage1_results, stage2_results,
                   label_to_model, aggregate_rankings, runtime_failures,
                   stage3_result, ret, gateway, title_call, conversion>>

\* if not cfg.council_models: return the error result
AbortNoModels ==
    /\ pc = "Stage1"
    /\ phase = "start"
    /\ cfg.council_models = <<>>
    /\ ret' = NoModelsResult(cfg)
    /\ pc' = "Aborted"
    /\ phase' = "end"
    /\ UNCHANGED <<config, cfg, calls, completed, responses, stage1_results,
                   stage2_results, label_to_model, aggregate_rankings,
                   runtime_failures, stage3_result, gateway, title_call, conversion>>

\* stage1_collect_responses up to its await
Stage1Dispatch ==
    /\ pc = "Stage1"
    /\ phase = "start"
    /\ cfg.council_models # <<>>
    /\ calls' = calls \o NewTasks("stage1", cfg.council_models,
                                  [kind |-> "user", question |-> UserQuery])
    /\ completed' = <<>>
    /\ phase' = "awaiting"
    /\ UNCHANGED <<config, cfg, pc, responses, stage1_results, stage2_results,
                   label_to_model, aggregate_rankings, runtime_failures,
                   stage3_result, ret, gateway, title_call, conversion>>

\* The rest of stage 1: the result list, the stage1 runtime failures and
\* the return when nothing answered.
Stage1Collect ==
    /\ pc = "Stage1"
    /\ phase = "returned"
    /\ LET s1 == Stage1Results(responses)
           failures == RuntimeFailures(cfg.council_models, Models(s1), "stage1")
       IN  /\ stage1_results' = s1
           /\ runtime_failures' = runtime_failures \o failures
           /\ IF NoStage1Response(s1)
              THEN /\ ret' = Returned(<<>>, <<>>, ErrorResult("Please try again."),
                                      [failures |-> cfg.failures,
                                       runtime_failures |-> runtime_failures \o failures])
                   /\ pc' = "Aborted"
                   /\ phase' = "end"
              ELSE /\ pc' = "Stage2"
                   /\ phase' = "start"
                   /\ UNCHANGED ret
    /\ UNCHANGED <<config, cfg, calls, completed, responses, stage2_results,
                   label_to_model, aggregate_rankings, stage3_result,
                   gateway, title_call, conversion>>

\* Ranking by every effective council model, whatever it did in Stage 1.
ranking_models_whole_council(s1) == cfg.council_models

\* ranking_models = [result["model"] for result in stage1_results]
ranking_models(s1) == Models(s1)

\* stage2_collect_rankings up to its await
Stage2Dispatch ==
    /\ pc = "Stage2"
    /\ phase = "start"
    /\ label_to_model' = LabelToModel(stage1_results)
    /\ calls' = calls \o NewTasks("stage2", ranking_models(stage1_results),
                                  RankingPrompt(UserQuery, stage1_results))
    /\ completed' = <<>>
    /\ phase' = "awaiting"
    /\ UNCHANGED <<config, cfg, pc, responses, stage1_results, stage2_results,
                   aggregate_rankings, runtime_failures, stage3_result, ret,
                   gateway, title_call, conversion>>

\* The rest of stage 2: parse every ranking, then the stage2 runtime failures.
Stage2Collect ==
    /\ pc = "Stage2"
    /\ phase = "returned"
    /\ IF Stage2Raises(responses)
       THEN /\ phase' = "raised"
            /\ UNCHANGED <<pc, stage2_results, runtime_failures>>
       ELSE LET s2 == Stage2Results(responses)
            IN  /\ stage2_results' = s2
                /\ runtime_failures' = runtime_failures
                       \o RuntimeFailures(Models(stage1_results), Models(s2), "stage2")
                /\ pc' = "Aggregating"
                /\ phase' = "start"
    /\ UNCHANGED <<config, cfg, calls, completed, responses, stage1_results,
                   label_to_model, aggregate_rankings, stage3_result, ret,
                   gateway, title_call, conversion>>

Aggregate ==
    /\ pc = "Aggregating"
    /\ aggregate_rankings' = calculate_aggregate_rankings(stage2_results, label_to_model)
    /\ pc' = "Stage3"
    /\ phase' = "start"
    /\ UNCHANGED <<config, cfg, calls, completed, responses, stage1_results,
                   stage2_results, label_to_model, runtime_failures, stage3_result,
                   ret, gateway, title_call, conversion>>

\* A chairman taken from the configured value instead of the resolved one.
EffectiveChairmanConfigured == config.CHAIRMAN_MODEL

\* chairman_model or CHAIRMAN_MODEL
EffectiveChairman ==
    IF cfg.chairman_model # None /\ cfg.chairman_model # <<>>
    THEN cfg.chairman_model ELSE config.CHAIRMAN_MODEL

\* stage3_synthesize_final up to its await
Stage3Dispatch ==
    /\ pc = "Stage3"
    /\ phase = "start"
    /\ calls' = Append(calls, Call("stage3", EffectiveChairman,
                                   ChairmanPrompt(UserQuery, stage1_results, stage2_results)))
    /\ completed' = <<>>
    /\ phase' = "awaiting"
    /\ UNCHANGED <<config, cfg, pc, responses, stage1_results, stage2_results,
                   label_to_model, aggregate_rankings, runtime_failures,
                   stage3_result, ret, gateway, title_call, conversion>>

\* A placeholder attributed to "error" like the results of an aborted run.
Stage3ResultAsError(chairman, value) ==
    IF value = Null
    THEN [model |-> <<"error">>,
          response |-> <<"Error: Unable to generate final synthesis.">>]
    ELSE [model |-> chairman, response |-> value.content]

\* The result of stage3_synthesize_final for the chairman's response.
Stage3Result(chairman, value) ==
    IF value = Null
    THEN [model |-> chairman, response |-> <<"Error: Unable to generate final synthesis.">>]
    ELSE [model |-> chairman, response |-> value.content]

\* The rest of stage 3, the metadata and the return.
Stage3Collect ==
    /\ pc = "Stage3"
    /\ phase = "awaiting"
    /\ LET call == calls[Len(calls)]
       IN  /\ call.status = "done"
           /\ IF call.result.exc # NoExc
              THEN phase' = "raised" /\ UNCHANGED <<pc, stage3_result, ret>>
              ELSE LET s3 == Stage3Result(call.model, call.result.value)
                   IN  /\ stage3_result' = s3
                       /\ ret' = Returned(stage1_results, stage2_results, s3,
                                    [label_to_model |-> label_to_model,
                                     aggregate_rankings |-> aggregate_rankings,
                                     failures |-> cfg.failures,
                                     runtime_failures |-> runtime_failures])
                       /\ pc' = "Done"
                       /\ phase' = "end"
    /\ UNCHANGED <<config, cfg, calls, completed, responses, stage1_results,
                   stage2_results, label_to_model, aggregate_rankings,
                   runtime_failures, gateway, title_call, conversion>>

Next ==
    \/ LoadConfig
    \/ AbortNoModels
    \/ Stage1Dispatch
    \/ \E i \in 1..Len(calls) : CallComplete(i)
    \/ GatherReturn
    \/ Stage1Collect
    \/ Stage2Dispatch
    \/ Stage2Collect
    \/ Aggregate
    \/ Stage3Dispatch
    \/ Stage3Collect

Spec == Init /\ [][Next]_vars

\* ------------------------------------------- one query_model call alone

GatewaySpecs ==
    {<<p, ":", "m">> : p \in PROVIDERS}
    \cup {<<"vendor/model">>, <<"google", ":", "m">>, <<"OpenAI", ":", "m">>,
          <<" ", "Gemini", " ", ":", " ", "m">>, <<":", "m">>,
          <<"open", "ai", ":", "m">>}

AllSettings == UNION {AdapterSettings(p) : p \in PROVIDERS}

GatewaySettings == {{}, DefaultSettings, AllSettings}

InitQuery ==
    /\ \E settings \in GatewaySettings :
          config = LoadConfigModule(settings, <<>>, None, None)
    /\ RunInit
    /\ title_call = Null
    /\ conversion = Null
    /\ \E model_spec \in GatewaySpecs :
          gateway = [model_spec |-> model_spec, status |-> "pending",
                     provider |-> <<>>, model_name |-> <<>>,
                     outcome |-> NoAdapter, result |-> Returns(Null, "")]

\* await query_model(model_spec, messages)
QueryModel ==
    /\ gateway.status = "pending"
    /\ \E outcome \in SelectedOutcomes(gateway.model_spec, config.settings) :
          gateway' = [gateway EXCEPT !.status = "done", !.outcome = outcome,
                                     !.provider = parse_model_spec(gateway.model_spec)[1],
                                     !.model_name = parse_model_spec(gateway.model_spec)[2],
                                     !.result = query_model(gateway.model_spec, outcome)]
    /\ UNCHANGED <<config, run_vars, title_call, conversion>>

NextQuery == QueryModel

SpecQuery == InitQuery /\ [][NextQuery]_vars

\* ------------------------------------------------- the spec parser alone

\* The tokens of a model spec: a blank, the separator, a provider name in
\* upper and in lower case, and a piece of a model name.
SpecTokens == {" ", ":", "OpenAI", "glm", "m"}

\* One query_model call for any model spec of these tokens, the empty
\* string included.
InitModelSpec ==
    /\ \E settings \in {{}, AllSettings} :
          config = LoadConfigModule(settings, <<>>, None, None)
    /\ RunInit
    /\ title_call = Null
    /\ conversion = Null
    /\ \E model_spec \in SeqsUpTo(SpecTokens, MaxSpec) :
          gateway = [model_spec |-> model_spec, status |-> "pending",
                     provider |-> <<>>, model_name |-> <<>>,
                     outcome |-> NoAdapter, result |-> Returns(Null, "")]

NextModelSpec == QueryModel

SpecModelSpec == InitModelSpec /\ [][NextModelSpec]_vars

\* ----------------------------------------- the resolver and the gateway

\* The settings of the provider a spec names; none for an unknown provider.
OwnSettings(model_spec) ==
    IF Registered(ProviderOf(model_spec))
    THEN AdapterSettings(ProviderOf(model_spec)[1]) ELSE {}

\* The snapshots of the settings for a council of one model: any of the
\* provider's own settings, with none or all of the settings of the other
\* providers; OPENROUTER_API_URL is a constant of config.py and always set.
Snapshots(model_spec) ==
    {({"OPENROUTER_API_URL"} \cup own) \cup others :
        own \in SUBSET OwnSettings(model_spec),
        others \in {{}, AllSettings \ OwnSettings(model_spec)}}

InitAgree ==
    /\ \E model_spec \in GatewaySpecs : \E settings \in Snapshots(model_spec) :
          config = LoadConfigModule(settings, <<model_spec>>, None, None)
    /\ RunInit
    /\ gateway = Null
    /\ title_call = Null
    /\ conversion = Null

\* One query_model call for a model of the effective council, as the
\* stages issue it.
QueryEffectiveModel ==
    /\ cfg # Null
    /\ gateway = Null
    /\ \E k \in 1..Len(cfg.council_models) :
       \E outcome \in SelectedOutcomes(cfg.council_models[k], config.settings) :
          gateway' = [model_spec |-> cfg.council_models[k], status |-> "done",
                      provider |-> parse_model_spec(cfg.council_models[k])[1],
                      model_name |-> parse_model_spec(cfg.council_models[k])[2],
                      outcome |-> outcome,
                      result |-> query_model(cfg.council_models[k], outcome)]
    /\ UNCHANGED <<config, run_vars, title_call, conversion>>

NextAgree == LoadConfig \/ QueryEffectiveModel

SpecAgree == InitAgree /\ [][NextAgree]_vars

\* ------------------------------------------------- the title generator

NewConversation == <<"New Conversation">>

\* The longest title returned as it is, in characters.
TitleLimit == 50

\* A text of n characters.
Chars(n) == [i \in 1..n |-> "x"]

\* The answers of a title model, character by character: a title, a title
\* between blanks and quotes, an empty text, and texts of 50 and 51
\* characters.
TitleTexts ==
    {<<"T", "i", "t", "l", "e">>,
     <<" ", "\"", "T", "i", "t", "l", "e", "'", " ">>,
     <<>>,
     Chars(TitleLimit), Chars(TitleLimit + 1)}

\* title.strip('"\'')
RECURSIVE LStripQuotes(_)
LStripQuotes(s) ==
    IF s # <<>> /\ Head(s) \in {"\"", "'"} THEN LStripQuotes(Tail(s)) ELSE s

RECURSIVE RStripQuotes(_)
RStripQuotes(s) ==
    IF s # <<>> /\ s[Len(s)] \in {"\"", "'"}
    THEN RStripQuotes(SubSeq(s, 1, Len(s) - 1)) ELSE s

StripQuotes(s) == RStripQuotes(LStripQuotes(s))

\* title[:47] + "..." when the title is longer than 50 characters
Truncate(s) ==
    IF Len(s) > TitleLimit THEN SubSeq(s, 1, TitleLimit - 3) \o <<".", ".", ".">> ELSE s

\* effective_title_model = cfg.title_model or TITLE_MODEL
EffectiveTitleModel(cfgmod) ==
    LET resolved == load_council_config(cfgmod)
    IN  IF resolved.title_model # None /\ resolved.title_model # <<>>
        THEN resolved.title_model ELSE cfgmod.TITLE_MODEL

NoTitleModel(cfgmod) == EffectiveTitleModel(cfgmod) \in {None, <<>>}

\* What the adapter of the title model can do: as for any query, and a
\* successful backend may answer with any of the title texts.
TitleOutcomes(cfgmod) ==
    IF NoTitleModel(cfgmod) THEN {NoAdapter}
    ELSE LET outcomes == SelectedOutcomes(EffectiveTitleModel(cfgmod), cfgmod.settings)
         IN  outcomes \cup (IF \E o \in outcomes : o.kind = "ok"
                            THEN {Ok(ModelResponse(t)) : t \in TitleTexts} ELSE {})

\* generate_conversation_title with the outcome of the adapter call its
\* query awaits: what it returns, or the exception that leaves it.
generate_conversation_title(cfgmod, outcome) ==
    IF NoTitleModel(cfgmod) THEN [exc |-> NoExc, value |-> NewConversation]
    ELSE LET response == query_model(EffectiveTitleModel(cfgmod), outcome)
         IN  IF response.exc # NoExc THEN [exc |-> response.exc, value |-> None]
             ELSE IF response.value = Null THEN [exc |-> NoExc, value |-> NewConversation]
             ELSE IF response.value.content = None
             THEN [exc |-> "AttributeError", value |-> None]
             ELSE [exc |-> NoExc,
                   value |-> Truncate(StripQuotes(Strip(response.value.content)))]

InitTitle ==
    /\ config \in Configs
    /\ RunInit
    /\ gateway = Null
    /\ title_call = [status |-> "pending", outcome |-> NoAdapter,
                result |-> [exc |-> NoExc, value |-> None]]
    /\ conversion = Null

GenerateTitle ==
    /\ title_call # Null
    /\ title_call.status = "pending"
    /\ \E outcome \in TitleOutcomes(config) :
          title_call' = [status |-> "done", outcome |-> outcome,
                    result |-> generate_conversation_title(config, outcome)]
    /\ UNCHANGED <<config, run_vars, gateway, conversion>>

NextTitle == GenerateTitle

SpecTitle == InitTitle /\ [][NextTitle]_vars

\* ------------------------------------------- llm_client: message conversion

\* The role of a message that has no role key.
Absent == "(absent)"

\* msg.get("role", "user")
RoleOf(msg) == IF msg.role = Absent THEN "user" ELSE msg.role

SystemPrefix == "[SYSTEM]\n"

TurnSeparator == "\n\n"

\* The loop of _to_gemini_contents.
RECURSIVE GeminiLoop(_, _)
GeminiLoop(contents, messages) ==
    IF messages = <<>> THEN contents
    ELSE LET msg == Head(messages)
             role == RoleOf(msg)
             g_role == IF role = "assistant" THEN "model" ELSE "user"
             text == IF role # "assistant" /\ role = "system"
                     THEN <<SystemPrefix>> \o msg.content ELSE msg.content
             n == Len(contents)
         IN  GeminiLoop(
                IF n > 0 /\ contents[n].role = g_role
                THEN [contents EXCEPT ![n].parts[1].text = @ \o <<TurnSeparator>> \o text]
                ELSE Append(contents, [role |-> g_role, parts |-> <<[text |-> text]>>]),
                Tail(messages))

\* A Gemini conversion that starts a new turn for every message.
_to_gemini_contents_unmerged(messages) ==
    [i \in 1..Len(messages) |-> GeminiLoop(<<>>, <<messages[i]>>)[1]]

_to_gemini_contents(messages) == GeminiLoop(<<>>, messages)

\* The loop of _to_anthropic_messages.
RECURSIVE AnthropicLoop(_, _)
AnthropicLoop(converted, messages) ==
    IF messages = <<>> THEN converted
    ELSE LET msg == Head(messages)
             role0 == RoleOf(msg)
             text == IF role0 = "system" THEN <<SystemPrefix>> \o msg.content
                     ELSE msg.content
             role1 == IF role0 = "system" THEN "user" ELSE role0
             role == IF role1 \notin {"user", "assistant"} THEN "user" ELSE role1
             n == Len(converted)
         IN  AnthropicLoop(
                IF n > 0 /\ converted[n].role = role
                THEN [converted EXCEPT ![n].content = @ \o <<TurnSeparator>> \o text]
                ELSE Append(converted, [role |-> role, content |-> text]),
                Tail(messages))

_to_anthropic_messages(messages) == AnthropicLoop(<<>>, messages)

\* The roles of the messages converted: the three OpenAI roles, a role
\* that neither backend knows, and no role at all.
MessageRoles == {"user", "assistant", "system", "tool", Absent}

\* The message lists converted: the k-th message has the text k.
MessageLists ==
    {[k \in 1..Len(roles) |-> [role |-> roles[k], content |-> <<ToString(k)>>]] :
        roles \in SeqsUpTo(MessageRoles, MaxMessages)}

InitConvert ==
    /\ config = LoadConfigModule(DefaultSettings, <<>>, None, None)
    /\ RunInit
    /\ gateway = Null
    /\ title_call = Null
    /\ \E messages \in MessageLists :
          conversion = [messages |-> messages, done |-> {},
                        contents |-> <<>>, converted |-> <<>>]

\* _query_gemini converts the messages of its request.
ToGeminiContents ==
    /\ conversion # Null
    /\ "gemini" \notin conversion.done
    /\ conversion' = [conversion EXCEPT !.done = @ \cup {"gemini"},
                                        !.contents = _to_gemini_contents(conversion.messages)]
    /\ UNCHANGED <<config, run_vars, gateway, title_call>>

\* _query_anthropic converts the messages of its request.
ToAnthropicMessages ==
    /\ conversion # Null
    /\ "anthropic" \notin conversion.done
    /\ conversion' = [conversion EXCEPT !.done = @ \cup {"anthropic"},
                                        !.converted = _to_anthropic_messages(conversion.messages)]
    /\ UNCHANGED <<config, run_vars, gateway, title_call>>

NextConvert == ToGeminiContents \/ ToAnthropicMessages

SpecConvert == InitConvert /\ [][NextConvert]_vars

\* ------------------------------------------------- the labelling alone

\* A council of n OpenRouter models.
LabelCouncil(n) == [k \in 1..n |-> <<"vendor/model", ToString(k)>>]

\* The run at the start of Stage 2, for a council of n models of which the
\* first a - 1 failed Stage 1 and the others answered.
InitLabels ==
    \E n \in 1..MaxLabels : \E a \in 1..n :
        /\ config = LoadConfigModule(DefaultSettings \cup {"OPENROUTER_API_KEY"},
                                     LabelCouncil(n), None, None)
        /\ cfg = load_council_config(config)
        /\ calls = [k \in 1..n |->
                [Call("stage1", cfg.council_models[k],
                      [kind |-> "user", question |-> UserQuery])
                    EXCEPT !.status = "done",
                           !.result = TaskResult(query_model(cfg.council_models[k],
                                          IF k < a THEN Raises("Exception", 0)
                                          ELSE Ok(ModelResponse(<<"prose">>))))]]
        /\ completed = [k \in 1..n |-> k]
        /\ responses = query_models_parallel(Tasks("stage1"), completed)
        /\ stage1_results = Stage1Results(responses)
        /\ runtime_failures =
              RuntimeFailures(cfg.council_models, Models(stage1_results), "stage1")
        /\ pc = "Stage2"
        /\ phase = "start"
        /\ stage2_results = <<>>
        /\ label_to_model = <<>>
        /\ aggregate_rankings = <<>>
        /\ stage3_result = Null
        /\ ret = Null
        /\ gateway = Null
        /\ title_call = Null
        /\ conversion = Null

NextLabels == Stage2Dispatch

SpecLabels == InitLabels /\ [][NextLabels]_vars

\* ------------------------------------------------- the parser alone

\* The tokens of a ranking text: prose, the marker, a list number, two
\* labels and a lower-case near-label.
RankingTokens ==
    {"prose", "FINAL RANKING:", "1.", "Response A", "Response B", "Response a"}

RankingTexts == SeqsUpTo(RankingTokens, MaxText)

\* The run when the Stage 2 queries have returned, for a council of one
\* model whose ranking is any of the texts.
InitParse ==
    \E ranking_text \in RankingTexts :
        /\ config = LoadConfigModule(DefaultSettings \cup {"OPENROUTER_API_KEY"},
                                     LabelCouncil(1), None, None)
        /\ cfg = load_council_config(config)
        /\ stage1_results = <<[model |-> cfg.council_models[1], response |-> <<"prose">>]>>
        /\ label_to_model = LabelToModel(stage1_results)
        /\ calls = <<[Call("stage1", cfg.council_models[1],
                           [kind |-> "user", question |-> UserQuery])
                         EXCEPT !.status = "done",
                                !.result = TaskResult(query_model(cfg.council_models[1],
                                               Ok(ModelResponse(<<"prose">>))))],
                     [Call("stage2", cfg.council_models[1],
                           RankingPrompt(UserQuery, stage1_results))
                         EXCEPT !.status = "done",
                                !.result = TaskResult(query_model(cfg.council_models[1],
                                               Ok(ModelResponse(ranking_text))))]>>
        /\ completed = <<2>>
        /\ responses = query_models_parallel(Tasks("stage2"), completed)
        /\ runtime_failures = <<>>
        /\ pc = "Stage2"
        /\ phase = "returned"
        /\ stage2_results = <<>>
        /\ aggregate_rankings = <<>>
        /\ stage3_result = Null
        /\ ret = Null
        /\ gateway = Null
        /\ title_call = Null
        /\ conversion = Null

NextParse == Stage2Collect

SpecParse == InitParse /\ [][NextParse]_vars

\* The parser and the aggregation of what it found.
NextParseAggregate == Stage2Collect \/ Aggregate

SpecParseAggregate == InitParse /\ [][NextParseAggregate]_vars

\* ------------------------------------------------- the collection of Stage 2

\* What a Stage 2 query can come to: a failure, or a response whose text
\* has no label at all (with and without the marker), a ranking in the
\* requested format, labels in prose, or no text.
RankingOutcomes ==
    {Raises("Exception", 0)}
    \cup {Ok(ModelResponse(t)) :
            t \in {<<"prose">>, <<"prose", "FINAL RANKING:">>,
                   <<"FINAL RANKING:", "1.", "Response B", "2.", "Response A">>,
                   <<"Response A", "prose">>, None}}

\* The run when the Stage 2 queries have returned, for a council of n
\* models of which the first a - 1 failed Stage 1.
InitRankings ==
    \E n \in 1..(MaxModels + 1) : \E a \in 1..n :
    \E outcomes \in [1..(n - a + 1) -> RankingOutcomes] :
        /\ config = LoadConfigModule(DefaultSettings \cup {"OPENROUTER_API_KEY"},
                                     LabelCouncil(n), None, None)
        /\ cfg = load_council_config(config)
        /\ stage1_results = [k \in 1..(n - a + 1) |->
                                [model |-> cfg.council_models[a - 1 + k],
                                 response |-> <<"prose">>]]
        /\ label_to_model = LabelToModel(stage1_results)
        /\ calls = [k \in 1..n |->
                       [Call("stage1", cfg.council_models[k],
                             [kind |-> "user", question |-> UserQuery])
                           EXCEPT !.status = "done",
                                  !.result = TaskResult(query_model(cfg.council_models[k],
                                                 IF k < a THEN Raises("Exception", 0)
                                                 ELSE Ok(ModelResponse(<<"prose">>))))]]
                   \o
                   [k \in 1..(n - a + 1) |->
                       [Call("stage2", stage1_results[k].model,
                             RankingPrompt(UserQuery, stage1_results))
                           EXCEPT !.status = "done",
                                  !.result = TaskResult(query_model(stage1_results[k].model,
                                                                    outcomes[k]))]]
        /\ completed = [k \in 1..(n - a + 1) |-> n + k]
        /\ responses = query_models_parallel(Tasks("stage2"), completed)
        /\ runtime_failures =
              RuntimeFailures(cfg.council_models, Models(stage1_results), "stage1")
        /\ pc = "Stage2"
        /\ phase = "returned"
        /\ stage2_results = <<>>
        /\ aggregate_rankings = <<>>
        /\ stage3_result = Null
        /\ ret = Null
        /\ gateway = Null
        /\ title_call = Null
        /\ conversion = Null

NextRankings == Stage2Collect

SpecRankings == InitRankings /\ [][NextRankings]_vars

\* ------------------------------------------------- the aggregation alone

\* The ranking texts of the rankers.
OnlyA == <<"FINAL RANKING:", "1.", "Response A">>
OnlyB == <<"FINAL RANKING:", "1.", "Response B">>
AThenB == <<"FINAL RANKING:", "1.", "Response A", "2.", "Response B">>
BThenA == <<"FINAL RANKING:", "1.", "Response B", "2.", "Response A">>
ZThenA == <<"prose", "FINAL RANKING:", "1.", "Response Z", "2.", "Response A">>

Repeat(text, k) == [i \in 1..k |-> text]

Reversed(seq) == [i \in 1..Len(seq) |-> seq[Len(seq) + 1 - i]]

\* The rankings of a council: so many rankers for each text, in one of
\* two orders.
Ballots ==
    LET forward(a, b, ab, ba, z) ==
            Repeat(OnlyA, a) \o Repeat(OnlyB, b) \o Repeat(AThenB, ab)
            \o Repeat(BThenA, ba) \o Repeat(ZThenA, z)
    IN  UNION {{forward(a, b, ab, ba, z), Reversed(forward(a, b, ab, ba, z))} :
                 <<a, b, ab, ba, z>> \in (0..MaxAlone) \X (0..MaxAlone)
                                         \X (0..MaxBoth) \X (0..MaxBoth) \X (0..1)}

\* The run when Stage 2 has been collected, for a council in which every
\* model answered both stages and the k-th model wrote the k-th ranking.
InitAggregate ==
    \E texts \in Ballots \ {<<>>} :
        LET n == Len(texts) IN
        /\ config = LoadConfigModule(DefaultSettings \cup {"OPENROUTER_API_KEY"},
                                     LabelCouncil(n), None, None)
        /\ cfg = load_council_config(config)
        /\ stage1_results = [k \in 1..n |->
                                [model |-> cfg.council_models[k], response |-> <<"prose">>]]
        /\ label_to_model = LabelToModel(stage1_results)
        /\ calls = [k \in 1..n |->
                       [Call("stage1", cfg.council_models[k],
                             [kind |-> "user", question |-> UserQuery])
                           EXCEPT !.status = "done",
                                  !.result = TaskResult(query_model(cfg.council_models[k],
                                                 Ok(ModelResponse(<<"prose">>))))]]
                   \o
                   [k \in 1..n |->
                       [Call("stage2", cfg.council_models[k],
                             RankingPrompt(UserQuery, stage1_results))
                           EXCEPT !.status = "done",
                                  !.result = TaskResult(query_model(cfg.council_models[k],
                                                 Ok(ModelResponse(texts[k]))))]]
        /\ completed = [k \in 1..n |-> n + k]
        /\ responses = query_models_parallel(Tasks("stage2"), completed)
        /\ stage2_results = Stage2Results(responses)
        /\ runtime_failures = <<>>
        /\ pc = "Aggregating"
        /\ phase = "start"
        /\ aggregate_rankings = <<>>
        /\ stage3_result = Null
        /\ ret = Null
        /\ gateway = Null
        /\ title_call = Null
        /\ conversion = Null

NextAggregate == Aggregate

SpecAggregate == InitAggregate /\ [][NextAggregate]_vars

\* ------------------------------------------------- the resolver alone

ResolverSpecs ==
    {<<"vendor/model">>, <<"openai", ":", "gpt">>, <<"OpenAI", ":", "gpt">>,
     <<"google", ":", "gemini">>, <<"anthropic", ":", "claude">>}

\* Values of LLM_CHAIRMAN_MODEL: unset, a spec, a spec between blanks, blanks.
ResolverChairmen ==
    {None, <<"vendor/model">>, <<"openai", ":", "gpt">>,
     <<" ", "openai", ":", "gpt", " ">>, <<"google", ":", "gemini">>, <<" ">>}

\* Values of TITLE_MODEL.
ResolverTitles ==
    {None, <<"openai", ":", "gpt">>, <<"google", ":", "gemini">>, <<" ">>}

\* The environment: a default is lost when the variable is set to "".
ResolverSettings ==
    {(base \cup {"ANTHROPIC_API_KEY"}) \cup keys :
        base \in {DefaultSettings, DefaultSettings \ {"OPENAI_API_BASE"}},
        keys \in SUBSET {"OPENROUTER_API_KEY", "OPENAI_API_KEY", "ANTHROPIC_API_VERSION"}}

InitConfig ==
    /\ \E settings \in ResolverSettings, models \in SeqsUpTo(ResolverSpecs, MaxModels),
          chairman \in ResolverChairmen, title \in ResolverTitles :
          config = LoadConfigModule(settings, models, chairman, title)
    /\ RunInit
    /\ gateway = Null
    /\ title_call = Null
    /\ conversion = Null

NextConfig == LoadConfig

SpecConfig == InitConfig /\ [][NextConfig]_vars

\* ------------------------------------------------------------- properties

CallModels(stage) == [k \in 1..Len(Tasks(stage)) |-> calls[Tasks(stage)[k]].model]

\* r lists its entries in the order in which d first names them.
OrderedBy(r, d) ==
    \A i, j \in 1..Len(r) :
        i < j => FirstIndex(d, r[i]) # 0 /\ FirstIndex(d, r[i]) < FirstIndex(d, r[j])

Stage1Record(spec) ==
    [model_spec |-> spec, stage |-> "stage1", error_type |-> "runtime_failure"]

\* Every Stage 1 call has finished and none gave a response.
AllStage1Failed ==
    /\ Tasks("stage1") # <<>>
    /\ \A i \in Range(Tasks("stage1")) :
          calls[i].status = "done" /\ calls[i].result.value = Null

\* C1: query_model never propagates an exception: whatever the selected
\* adapter does (return a response, raise ConfigError, raise an HTTP status
\* error such as 401, raise anything else) and also when no adapter is
\* registered, the call returns, and it returns the adapter's response when
\* there is one and None otherwise.
C1_QueryModelNeverRaises ==
    (gateway # Null /\ gateway.status = "done") =>
        /\ gateway.result.exc = NoExc
        /\ gateway.result.value =
              (IF gateway.outcome.kind = "ok" THEN gateway.outcome.response ELSE Null)

C1_Witness ==
    /\ gateway # Null
    /\ gateway.status = "done"
    /\ gateway.outcome.kind = "HTTPStatusError"
    /\ gateway.outcome.status = 401
    /\ gateway.result = Returns(Null, "401 Unauthorized")

\* C2: run_full_council never raises and, once it has ended, has returned a
\* four-tuple, whatever the per-model outcomes of the three stages are
\* (a response whose content is None included).
C2_NeverRaises ==
    /\ phase # "raised"
    /\ pc \in {"Done", "Aborted"} =>
          /\ ret # Null
          /\ DOMAIN ret = {"stage1_results", "stage2_results", "stage3_result", "metadata"}

\* C3: the mapping query_models_parallel returns has exactly the dispatched
\* model specs as keys, each once; a model whose calls all failed is present
\* with None; and every value is the outcome of a call made for its key.
C3_MappingKeys ==
    (pc \in {"Stage1", "Stage2"} /\ phase = "returned") =>
        LET tasks == Tasks(StageOf(pc))
        IN  /\ Range(DictKeys(responses)) = {calls[i].model : i \in Range(tasks)}
            /\ \A j, k \in 1..Len(responses) :
                  responses[j].key = responses[k].key => j = k
            /\ \A j \in 1..Len(responses) :
                  /\ \E i \in Range(tasks) :
                        /\ calls[i].model = responses[j].key
                        /\ calls[i].result.value = responses[j].value
                  /\ (\A i \in Range(tasks) :
                         calls[i].model = responses[j].key => calls[i].result.value = Null)
                     => responses[j].value = Null

C3_Witness ==
    /\ pc = "Stage1"
    /\ phase = "returned"
    /\ Len(responses) = 2
    /\ responses[1].value = Null
    /\ responses[2].value # Null

\* C4: Stage1Results follows the order of the dispatched council list and
\* Stage2Results the order of the models dispatched in Stage 2 (the Stage 1
\* survivors), whatever the order in which the calls completed.
C4_DispatchOrder ==
    /\ stage1_results # <<>> => OrderedBy(Models(stage1_results), cfg.council_models)
    /\ stage2_results # <<>> => OrderedBy(Models(stage2_results), CallModels("stage2"))

C4_Witness ==
    /\ pc = "Aggregating"
    /\ Len(stage1_results) = 2
    /\ Len(stage2_results) = 2
    /\ completed = <<Tasks("stage2")[2], Tasks("stage2")[1]>>

\* C5: no Stage 2 or Stage 3 query exists while a Stage 1 call is unfinished,
\* and no Stage 3 query exists while a Stage 2 call is unfinished.
C5_Barrier ==
    \A i, j \in 1..Len(calls) :
        (\/ calls[i].stage = "stage1" /\ calls[j].stage \in {"stage2", "stage3"}
         \/ calls[i].stage = "stage2" /\ calls[j].stage = "stage3")
        => calls[i].status = "done"

C5_Witness ==
    /\ Len(Tasks("stage1")) = 2
    /\ Len(Tasks("stage2")) = 2
    /\ Len(Tasks("stage3")) = 1

\* C6: the run changes state only along Idle, Stage1, Stage2, Aggregating,
\* Stage3, Done or from Stage1 to Aborted, and it leaves Stage1 for Aborted
\* exactly when the effective council is empty or the Stage 1 mapping holds
\* no response.
C6_Step ==
    pc' # pc =>
        /\ <<pc, pc'>> \in {<<"Idle", "Stage1">>, <<"Stage1", "Stage2">>,
                            <<"Stage2", "Aggregating">>, <<"Aggregating", "Stage3">>,
                            <<"Stage3", "Done">>, <<"Stage1", "Aborted">>}
        /\ pc = "Stage1" =>
              (pc' = "Aborted" <=>
                  \/ cfg.council_models = <<>>
                  \/ \A j \in 1..Len(responses) : responses[j].value = Null)

C6_StateOrder == [][C6_Step]_vars

C6_Witness ==
    /\ pc = "Aborted"
    /\ Len(Tasks("stage1")) = 2

\* C7: once every effective council model has failed Stage 1 there is never
\* a Stage 2 or Stage 3 query, the run is in Stage1 or Aborted, and what it
\* returns is ([], [], a result of model "error", metadata with the
\* resolver's failures and one stage1 runtime failure per entry of the
\* effective council).
C7_AllFailedAborts ==
    AllStage1Failed =>
        /\ Tasks("stage2") = <<>>
        /\ Tasks("stage3") = <<>>
        /\ pc \in {"Stage1", "Aborted"}
        /\ pc = "Aborted" =>
              /\ ret.stage1_results = <<>>
              /\ ret.stage2_results = <<>>
              /\ ret.stage3_result.model = <<"error">>
              /\ ret.metadata.failures = load_council_config(config).failures
              /\ ret.metadata.runtime_failures =
                    [i \in 1..Len(cfg.council_models) |-> Stage1Record(cfg.council_models[i])]

C7_Witness ==
    /\ AllStage1Failed
    /\ pc = "Aborted"
    /\ Len(ret.metadata.runtime_failures) = 2
    /\ ret.metadata.failures # <<>>

\* C8: with an empty effective council no query is ever issued and the run
\* returns ([], [], a result of model "error", metadata with the resolver's
\* failures and no runtime failure).
C8_EmptyCouncil ==
    (cfg # Null /\ cfg.council_models = <<>>) =>
        /\ calls = <<>>
        /\ pc \in {"Stage1", "Aborted"}
        /\ pc = "Aborted" =>
              /\ ret.stage1_results = <<>>
              /\ ret.stage2_results = <<>>
              /\ ret.stage3_result.model = <<"error">>
              /\ ret.metadata.failures = load_council_config(config).failures
              /\ ret.metadata.runtime_failures = <<>>

C8_Witness ==
    /\ pc = "Aborted"
    /\ calls = <<>>
    /\ config.COUNCIL_MODELS # <<>>
    /\ ret.metadata.failures # <<>>

Stage2Dispatched ==
    \/ pc \in {"Aggregating", "Stage3", "Done"}
    \/ pc = "Stage2" /\ phase # "start"

\* C9: the models queried in Stage 2 are the models of Stage1Results, in
\* that order: each of them gave a response in Stage 1, every council model
\* whose Stage 1 calls all gave a response is among them, and all are sent
\* the same prompt.
C9_Stage2Models ==
    Stage2Dispatched =>
        /\ CallModels("stage2") = Models(stage1_results)
        /\ \A m \in Range(CallModels("stage2")) :
              \E i \in Range(Tasks("stage1")) :
                  calls[i].model = m /\ calls[i].result.value # Null
        /\ \A m \in Range(cfg.council_models) :
              (\A i \in Range(Tasks("stage1")) :
                  calls[i].model = m => calls[i].result.value # Null)
              => m \in Range(CallModels("stage2"))
        /\ \A i, j \in Range(Tasks("stage2")) : calls[i].prompt = calls[j].prompt

C9_Witness ==
    /\ Stage2Dispatched
    /\ Len(Tasks("stage1")) = 2
    /\ Len(Tasks("stage2")) = 1
    /\ calls[Tasks("stage1")[1]].result.value = Null

Stage1Finished ==
    \/ pc \in {"Stage2", "Aggregating", "Stage3", "Done"}
    \/ pc = "Aborted" /\ calls # <<>>

\* C10: after Stage 1 the runtime failures tagged stage1 are one record for
\* each entry of the effective council whose model is absent from
\* Stage1Results, in council order, and none names a model that answered.
C10_Stage1Failures ==
    Stage1Finished =>
        LET tagged == SelectSeq(runtime_failures, LAMBDA f : f.stage = "stage1")
            absent == Without(cfg.council_models, Range(Models(stage1_results)))
        IN  /\ tagged = [i \in 1..Len(absent) |-> Stage1Record(absent[i])]
            /\ \A i \in 1..Len(tagged) :
                  tagged[i].model_spec \notin Range(Models(stage1_results))

C10_Witness ==
    /\ pc = "Stage2"
    /\ Len(stage1_results) = 1
    /\ SelectSeq(runtime_failures, LAMBDA f : f.stage = "stage1")
          = <<Stage1Record(cfg.council_models[1])>>

Stage2Finished == pc \in {"Aggregating", "Stage3", "Done"}

Stage2Record(spec) ==
    [model_spec |-> spec, stage |-> "stage2", error_type |-> "runtime_failure"]

\* Every Stage 2 call has finished and none gave a response.
AllStage2Failed ==
    /\ Tasks("stage2") # <<>>
    /\ \A i \in Range(Tasks("stage2")) :
          calls[i].status = "done" /\ calls[i].result.value = Null

\* C11: once Stage 2 is over, the runtime failures tagged stage2 are one
\* record for each model of Stage1Results that is absent from Stage2Results;
\* and when every Stage 2 call returned None the run is never aborted and
\* never raises: until it is Done it can always take its next step
\* (aggregate, query the chairman, return), and what it returns holds the
\* non-empty Stage1Results, an empty Stage2Results and the stage2 records.
C11_Stage2FailuresSoft ==
    /\ Stage2Finished =>
          LET tagged == SelectSeq(runtime_failures, LAMBDA f : f.stage = "stage2")
              absent == Without(Models(stage1_results), Range(Models(stage2_results)))
          IN  tagged = [i \in 1..Len(absent) |-> Stage2Record(absent[i])]
    /\ AllStage2Failed =>
          /\ pc \in {"Stage2", "Aggregating", "Stage3", "Done"}
          /\ phase # "raised"
          /\ pc # "Done" => ENABLED Next
          /\ pc = "Done" =>
                /\ Len(Tasks("stage3")) = 1
                /\ ret.stage1_results = stage1_results
                /\ ret.stage1_results # <<>>
                /\ ret.stage2_results = <<>>
                /\ ret.metadata.aggregate_rankings = <<>>
                /\ SelectSeq(ret.metadata.runtime_failures, LAMBDA f : f.stage = "stage2")
                      = [i \in 1..Len(stage1_results) |->
                            Stage2Record(stage1_results[i].model)]

C11_Witness ==
    /\ AllStage2Failed
    /\ pc = "Done"
    /\ Len(stage1_results) = 2
    /\ Len(SelectSeq(runtime_failures, LAMBDA f : f.stage = "stage2")) = 2

\* C12: once Stage 2 has built its labels, the N results of Stage1Results
\* carry the first N upper-case letters A, B, C, ... in their order (each
\* label one upper-case letter, none skipped, repeated or out of order),
\* and label_to_model maps the keys "Response <label>" one-to-one onto the
\* models of Stage1Results.
C12_Labels ==
    Stage2Dispatched =>
        LET N == Len(stage1_results)
            prompt == calls[Tasks("stage2")[1]].prompt
        IN  /\ Len(prompt.responses) = N
            /\ Len(label_to_model) = N
            /\ \A i \in 1..N :
                  /\ i <= Len(Letters)
                  /\ prompt.responses[i].label = Letters[i]
                  /\ prompt.responses[i].response = stage1_results[i].response
                  /\ label_to_model[i].key = ResponseKeys[i]
                  /\ label_to_model[i].value = stage1_results[i].model
            /\ \A i, j \in 1..N :
                  label_to_model[i].value = label_to_model[j].value => i = j

\* The same for at most 26 results.
C12_LabelsUpToZ == Len(stage1_results) <= Len(Letters) => C12_Labels

C12_Witness ==
    /\ Stage2Dispatched
    /\ Len(stage1_results) = Len(Letters) + 1
    /\ label_to_model[Len(Letters) + 1].key = "Response ["

\* C13: there is never more than one Stage 3 query; a run that is Done has
\* issued exactly one, a run that is Aborted none, and none exists before
\* the run is in Stage3, where the query can always be issued; the query
\* goes to the chairman that load_council_config resolved.
C13_OneChairmanQuery ==
    LET stage3 == Tasks("stage3")
    IN  /\ Len(stage3) <= 1
        /\ \A i \in Range(stage3) :
              /\ calls[i].model = load_council_config(config).chairman_model
              /\ calls[i].model # None
        /\ pc \in {"Idle", "Stage1", "Stage2", "Aggregating", "Aborted"} => stage3 = <<>>
        /\ (pc = "Stage3" /\ phase = "start") => (stage3 = <<>> /\ ENABLED Stage3Dispatch)
        /\ (pc = "Stage3" /\ phase # "start") => Len(stage3) = 1
        /\ pc = "Done" => Len(stage3) = 1

C13_Witness ==
    /\ pc = "Done"
    /\ Len(Tasks("stage3")) = 1
    /\ calls[Tasks("stage3")[1]].model # config.CHAIRMAN_MODEL
    /\ calls[Tasks("stage3")[1]].model = cfg.council_models[1]

\* The chairman's query has returned None.
ChairmanFailed ==
    /\ Len(Tasks("stage3")) = 1
    /\ calls[Tasks("stage3")[1]].status = "done"
    /\ calls[Tasks("stage3")[1]].result.value = Null

\* C14: when the chairman's query returns None the run still ends in Done
\* (it is never aborted and can always take the step that returns), the
\* Stage 3 result is the placeholder "Error: Unable to generate final
\* synthesis." under the chairman's spec and not under "error", and the
\* Stage 1 results, the Stage 2 results and the metadata are returned as
\* Stages 1 and 2 left them, with no record of the chairman's failure.
C14_ChairmanFallback ==
    ChairmanFailed =>
        /\ pc \in {"Stage3", "Done"}
        /\ phase # "raised"
        /\ pc = "Stage3" => ENABLED Stage3Collect
        /\ pc = "Done" =>
              /\ ret.stage3_result =
                    [model |-> load_council_config(config).chairman_model,
                     response |-> <<"Error: Unable to generate final synthesis.">>]
              /\ ret.stage3_result.model # <<"error">>
              /\ ret.stage1_results = stage1_results
              /\ ret.stage1_results # <<>>
              /\ ret.stage2_results = stage2_results
              /\ ret.metadata =
                    [label_to_model |-> LabelToModel(stage1_results),
                     aggregate_rankings |->
                         calculate_aggregate_rankings(stage2_results,
                                                      LabelToModel(stage1_results)),
                     failures |-> load_council_config(config).failures,
                     runtime_failures |->
                         RuntimeFailures(cfg.council_models, Models(stage1_results), "stage1")
                         \o RuntimeFailures(Models(stage1_results),
                                            Models(stage2_results), "stage2")]

C14_Witness ==
    /\ ChairmanFailed
    /\ pc = "Done"
    /\ ret.stage2_results # <<>>
    /\ ret.metadata.aggregate_rankings # <<>>

\* C15: in every terminal state of a run, Done or Aborted, the returned
\* metadata holds the four entries label_to_model, aggregate_rankings,
\* failures and runtime_failures.
C15_AllFourEntries ==
    pc \in {"Done", "Aborted"} =>
        DOMAIN ret.metadata =
            {"label_to_model", "aggregate_rankings", "failures", "runtime_failures"}

\* C15 as amended: the metadata returned in Done holds the four entries,
\* and the metadata returned in Aborted holds failures and runtime_failures
\* and nothing else; in both, failures is the resolver's list and
\* runtime_failures the list of the run.
C15_MetadataEntries ==
    /\ pc = "Done" =>
          /\ DOMAIN ret.metadata =
                {"label_to_model", "aggregate_rankings", "failures", "runtime_failures"}
          /\ ret.metadata.label_to_model = label_to_model
          /\ ret.metadata.aggregate_rankings = aggregate_rankings
    /\ pc = "Aborted" => DOMAIN ret.metadata = {"failures", "runtime_failures"}
    /\ pc \in {"Done", "Aborted"} =>
          /\ ret.metadata.failures = load_council_config(config).failures
          /\ ret.metadata.runtime_failures = runtime_failures

C15_Witness ==
    /\ pc = "Aborted"
    /\ DOMAIN ret.metadata = {"failures", "runtime_failures"}
    /\ ret.metadata.runtime_failures # <<>>

\* The records the council loop of load_council_config appended: one for
\* each configured model that was not kept.
CouncilRecords ==
    SubSeq(cfg.failures, 1, Len(config.COUNCIL_MODELS) - Len(cfg.council_models))

RecordedSpecs == {CouncilRecords[i].model_spec : i \in 1..Len(CouncilRecords)}

\* C16: load_council_config partitions the configured council models. The
\* kept models are the configured ones that are not recorded, in configured
\* order; the recorded ones are the rest, in configured order, each with
\* error_type config_error, its provider and a non-empty list of missing
\* settings: the settings its provider requires and the environment lacks,
\* or the UNSUPPORTED_PROVIDER marker for a provider that is not registered.
\* No model is both kept and recorded and none is in neither.
C16_Partition ==
    cfg # Null =>
        LET raw == config.COUNCIL_MODELS
            kept == cfg.council_models
        IN  /\ Len(kept) <= Len(raw)
            /\ Len(cfg.failures) >= Len(raw) - Len(kept)
            /\ kept = Without(raw, RecordedSpecs)
            /\ [i \in 1..Len(CouncilRecords) |-> CouncilRecords[i].model_spec]
                  = Without(raw, Range(kept))
            /\ Range(kept) \cap RecordedSpecs = {}
            /\ Range(kept) \cup RecordedSpecs = Range(raw)
            /\ \A i \in 1..Len(CouncilRecords) :
                  LET f == CouncilRecords[i]
                  IN  /\ f.error_type = "config_error"
                      /\ f.provider = parse_model_spec(f.model_spec)[1]
                      /\ f.missing # <<>>
                      /\ IF Registered(f.provider)
                         THEN /\ Range(f.missing)
                                   = Range(RequiredSettings(f.provider[1])) \ config.settings
                              /\ OrderedBy(f.missing, RequiredSettings(f.provider[1]))
                         ELSE f.missing = <<"UNSUPPORTED_PROVIDER">> \o f.provider
            /\ \A i \in 1..Len(kept) :
                  /\ Registered(ProviderOf(kept[i]))
                  /\ Range(RequiredSettings(ProviderOf(kept[i])[1])) \subseteq config.settings

C16_Witness ==
    /\ cfg # Null
    /\ Len(config.COUNCIL_MODELS) = 2
    /\ Len(cfg.council_models) = 1
    /\ Len(CouncilRecords) = 1
    /\ CouncilRecords[1].missing = <<"UNSUPPORTED_PROVIDER", "google">>

InvalidChairmanRecords ==
    SelectSeq(cfg.failures, LAMBDA f : f.error_type = "invalid_chairman")

\* C17: when LLM_CHAIRMAN_MODEL is set and its spec is not among the
\* effective council models, the resolved chairman is the first effective
\* model and failures holds an invalid_chairman record.
C17_ChairmanFallbackAlways ==
    (/\ cfg # Null
     /\ config.LLM_CHAIRMAN_MODEL # None
     /\ _normalize_model_spec(config.LLM_CHAIRMAN_MODEL) \notin Range(cfg.council_models))
    => /\ cfg.council_models # <<>>
       /\ cfg.chairman_model = cfg.council_models[1]
       /\ InvalidChairmanRecords # <<>>

\* C17 as amended: when LLM_CHAIRMAN_MODEL is set to a spec that is not
\* blank, the effective council is not empty and the spec (trimmed) is not
\* among its models, the resolved chairman is the first effective model and
\* failures holds exactly one invalid_chairman record, which names the
\* configured spec and its provider and lists nothing as missing.
C17_ChairmanFallback ==
    (/\ cfg # Null
     /\ config.LLM_CHAIRMAN_MODEL # None
     /\ _normalize_model_spec(config.LLM_CHAIRMAN_MODEL) # <<>>
     /\ cfg.council_models # <<>>
     /\ _normalize_model_spec(config.LLM_CHAIRMAN_MODEL) \notin Range(cfg.council_models))
    => /\ cfg.chairman_model = cfg.council_models[1]
       /\ InvalidChairmanRecords =
             <<[model_spec |-> config.LLM_CHAIRMAN_MODEL,
                provider |-> parse_model_spec(config.LLM_CHAIRMAN_MODEL)[1],
                error_type |-> "invalid_chairman",
                missing |-> <<>>]>>

C17_Witness ==
    /\ cfg # Null
    /\ config.LLM_CHAIRMAN_MODEL = <<" ", "openai", ":", "gpt", " ">>
    /\ cfg.council_models = <<<<"vendor/model">>>>
    /\ cfg.chairman_model = <<"vendor/model">>
    /\ Len(InvalidChairmanRecords) = 1

\* C18: when LLM_CHAIRMAN_MODEL is unset and the effective council is not
\* empty, the resolved chairman is the first effective council model and
\* failures holds no invalid_chairman record, also when the first
\* configured model was excluded as misconfigured.
C18_DefaultChairman ==
    (cfg # Null /\ config.LLM_CHAIRMAN_MODEL = None /\ cfg.council_models # <<>>)
    => /\ cfg.chairman_model = cfg.council_models[1]
       /\ InvalidChairmanRecords = <<>>

\* The chairman resolved without an override is the first effective model.
C18_DefaultChairmanModel ==
    (cfg # Null /\ config.LLM_CHAIRMAN_MODEL = None) =>
        cfg.chairman_model =
            (IF cfg.council_models # <<>> THEN cfg.council_models[1] ELSE None)

\* The provider of the configured title model lacks a setting.
TitleMisconfigured ==
    /\ config.TITLE_MODEL_ENV # None
    /\ _normalize_model_spec(config.TITLE_MODEL_ENV) # <<>>
    /\ _missing_env_for_provider(
            ProviderOf(_normalize_model_spec(config.TITLE_MODEL_ENV)), config.settings) # <<>>

\* C19: the resolved title model is the resolved chairman when TITLE_MODEL
\* is unset or names a provider that lacks a setting; and when TITLE_MODEL
\* is unset the title step adds nothing to failures, which then holds the
\* records of the council loop and of the chairman step only.
C19_TitleFallback ==
    cfg # Null =>
        /\ (config.TITLE_MODEL_ENV = None \/ TitleMisconfigured)
              => cfg.title_model = cfg.chairman_model
        /\ config.TITLE_MODEL_ENV = None
              => Len(cfg.failures) = Len(CouncilRecords) + Len(InvalidChairmanRecords)

\* The fallback of a title model that is configured and misconfigured.
C19_ConfiguredTitleFallback ==
    (cfg # Null /\ TitleMisconfigured) =>
        /\ cfg.title_model = cfg.chairman_model
        /\ Len(cfg.failures) = Len(CouncilRecords) + Len(InvalidChairmanRecords) + 1
        /\ cfg.failures[Len(cfg.failures)].model_spec = config.TITLE_MODEL_ENV

\* C20: the council_models of the effective configuration holds no model
\* spec twice, whatever list is configured.
C20_UniqueCouncil ==
    cfg # Null =>
        \A i, j \in 1..Len(cfg.council_models) :
            cfg.council_models[i] = cfg.council_models[j] => i = j

\* C21: for a model spec whose provider is not one of the registered
\* providers, query_model returns None and calls no adapter, neither the
\* OpenRouter one nor any other; and it calls an adapter for no other
\* provider than the one the spec names.
C21_UnknownProviderRejected ==
    (gateway # Null /\ gateway.status = "done") =>
        LET provider == parse_model_spec(gateway.model_spec)[1]
        IN  IF Len(provider) = 1 /\ provider[1] \in PROVIDERS
            THEN gateway.outcome \in AdapterOutcomes(provider[1], config.settings)
            ELSE /\ gateway.outcome.kind = "not_called"
                 /\ gateway.result.exc = NoExc
                 /\ gateway.result.value = Null
                 /\ gateway.result.diagnostic = "unknown provider"

C21_Witness ==
    /\ gateway # Null
    /\ gateway.status = "done"
    /\ gateway.model_spec = <<"google", ":", "m">>
    /\ "OPENROUTER_API_KEY" \in config.settings
    /\ gateway.outcome.kind = "not_called"
    /\ gateway.result.value = Null

\* C22: a response of query_model that is not None has a text as its
\* content, possibly the empty text and never None, whatever adapter
\* produced it (the chat-completions adapters included).
C22_ContentNeverNone ==
    (gateway # Null /\ gateway.status = "done" /\ gateway.result.value # Null) =>
        gateway.result.value.content # None

\* The ranking text of the one Stage 2 response, once it has been parsed.
Parsed == pc = "Aggregating" /\ Len(responses) = 1 /\ Len(stage2_results) = 1

RankingText == responses[1].value.content

HasMarker(text) == \E i \in 1..Len(text) : text[i] = "FINAL RANKING:"

\* Everything that follows the first marker of a text.
AfterFirstMarker(text) ==
    LET first == CHOOSE i \in 1..Len(text) :
                    /\ text[i] = "FINAL RANKING:"
                    /\ \A j \in 1..(i - 1) : text[j] # "FINAL RANKING:"
    IN  [k \in 1..(Len(text) - first) |-> text[first + k]]

\* The tokens of a text at the positions of S, in the order of the text.
TokensAt(text, S) ==
    LET upto[k \in 0..Len(text)] ==
            IF k = 0 THEN <<>>
            ELSE IF k \in S THEN Append(upto[k - 1], text[k]) ELSE upto[k - 1]
    IN  upto[Len(text)]

IsLabel(token) == \E i \in 1..Len(Letters) : token = ResponseKeys[i]

\* The labels of the strict numbered entries of a text: a number with its
\* period, directly followed by "Response <Letter>".
StrictLabels(text) ==
    TokensAt(text, {i \in 2..Len(text) : IsLabel(text[i]) /\ text[i - 1] \in NumberTokens})

\* Every "Response <Letter>" of a text.
AllLabels(text) == TokensAt(text, {i \in 1..Len(text) : IsLabel(text[i])})

\* C23: when the text has the marker and the text after it has at least one
\* strict numbered entry, the parsed ranking is exactly the labels of those
\* strict entries, in order, whatever comes before the marker or between
\* the entries.
C23_StrictEntries ==
    (Parsed /\ HasMarker(RankingText)
        /\ StrictLabels(AfterFirstMarker(RankingText)) # <<>>) =>
        stage2_results[1].parsed_ranking = StrictLabels(AfterFirstMarker(RankingText))

\* C24: when the text has no marker, the parsed ranking is every
\* "Response <uppercase letter>" of the whole text in order of appearance,
\* repeats included, and empty when there is none.
C24_NoMarkerFallback ==
    (Parsed /\ ~HasMarker(RankingText)) =>
        stage2_results[1].parsed_ranking = AllLabels(RankingText)

C24_Witness ==
    /\ Parsed
    /\ RankingText = <<"Response B", "prose", "Response a", "Response A", "Response B">>
    /\ stage2_results[1].parsed_ranking = <<"Response B", "Response A", "Response B">>

\* C25: when the text has the marker and nothing after the marker is a
\* strict entry or a "Response <Letter>", the parsed ranking is empty: the
\* labels before the marker are not used.
C25_NoWholeTextFallback ==
    (Parsed /\ HasMarker(RankingText)
        /\ StrictLabels(AfterFirstMarker(RankingText)) = <<>>
        /\ AllLabels(AfterFirstMarker(RankingText)) = <<>>) =>
        stage2_results[1].parsed_ranking = <<>>

C25_Witness ==
    /\ Parsed
    /\ RankingText = <<"1.", "Response A", "Response B", "FINAL RANKING:", "prose">>
    /\ stage2_results[1].parsed_ranking = <<>>

\* The run right after calculate_aggregate_rankings.
Aggregated == pc = "Stage3" /\ phase = "start"

\* The model a label stands for, if any.
Resolves(label, model) ==
    \E k \in 1..Len(label_to_model) :
        label_to_model[k].key = label /\ label_to_model[k].value = model

\* The (ranker, position) pairs at which a label of the model appears in
\* the parsed rankings.
Hits(model) ==
    UNION {{<<r, p>> : p \in {q \in 1..Len(stage2_results[r].parsed_ranking) :
                                  Resolves(stage2_results[r].parsed_ranking[q], model)}} :
              r \in 1..Len(stage2_results)}

\* The sum of the positions of a set of hits.
RECURSIVE PositionSum(_)
PositionSum(hits) ==
    IF hits = {} THEN 0
    ELSE LET rp == CHOOSE x \in hits : TRUE IN rp[2] + PositionSum(hits \ {rp})

\* The first hit of a model: the earliest ranker, and the earliest position
\* in that ranking.
FirstHit(model) ==
    CHOOSE rp \in Hits(model) :
        \A other \in Hits(model) :
            rp[1] < other[1] \/ (rp[1] = other[1] /\ rp[2] <= other[2])

Before(rp, other) == rp[1] < other[1] \/ (rp[1] = other[1] /\ rp[2] < other[2])

MappedModels == {label_to_model[k].value : k \in 1..Len(label_to_model)}

\* C26: every entry of the aggregate is a model with at least one
\* position; its rankings_count is the number of its positions and its
\* average_rank is the sum of its 1-based positions over that number, to
\* two decimals; a label that is not in label_to_model contributes
\* nothing; every model with a position has exactly one entry and a model
\* without a position has none.
C26_AveragePositions ==
    Aggregated =>
        /\ \A i \in 1..Len(aggregate_rankings) :
              LET entry == aggregate_rankings[i]
                  hits == Hits(entry.model)
                  diff == 100 * PositionSum(hits) - entry.average_rank * Cardinality(hits)
              IN  /\ hits # {}
                  /\ entry.rankings_count = Cardinality(hits)
                  /\ 2 * diff <= Cardinality(hits)
                  /\ 2 * diff >= 0 - Cardinality(hits)
        /\ \A model \in MappedModels :
              Cardinality({i \in 1..Len(aggregate_rankings) :
                              aggregate_rankings[i].model = model})
                  = IF Hits(model) = {} THEN 0 ELSE 1

C26_Witness ==
    /\ Aggregated
    /\ Len(stage2_results) = 2
    /\ stage2_results[1].parsed_ranking = <<"Response Z", "Response A">>
    /\ stage2_results[2].parsed_ranking = <<"Response A">>
    /\ ~\E model \in MappedModels : Resolves("Response Z", model)
    /\ \E model \in MappedModels : Hits(model) = {}
    /\ aggregate_rankings =
          <<[model |-> label_to_model[1].value, average_rank |-> 150, rankings_count |-> 2]>>

\* C27: the aggregate is in ascending order of the unrounded averages: no
\* entry comes before an entry whose sum of positions over number of
\* positions is strictly smaller, also when both averages round to the
\* same two decimals.
C27_SortedByTrueAverage ==
    Aggregated =>
        \A i, j \in 1..Len(aggregate_rankings) :
            i < j =>
                LET hi == Hits(aggregate_rankings[i].model)
                    hj == Hits(aggregate_rankings[j].model)
                IN  PositionSum(hi) * Cardinality(hj) <= PositionSum(hj) * Cardinality(hi)

\* C28: the aggregate is fixed by stage2_results and label_to_model; of two
\* models with equal average the one that first received a position
\* (earlier ranker, or earlier position of the same ranker) comes first.
C28_TieOrder ==
    Aggregated =>
        \A i, j \in 1..Len(aggregate_rankings) :
            LET mi == aggregate_rankings[i].model
                mj == aggregate_rankings[j].model
            IN  (/\ i < j
                 /\ Hits(mi) # {} /\ Hits(mj) # {}
                 /\ PositionSum(Hits(mi)) * Cardinality(Hits(mj))
                        = PositionSum(Hits(mj)) * Cardinality(Hits(mi)))
                => Before(FirstHit(mi), FirstHit(mj))

C28_Witness ==
    /\ Aggregated
    /\ Len(stage2_results) = 2
    /\ stage2_results[1].parsed_ranking = <<"Response B">>
    /\ stage2_results[2].parsed_ranking = <<"Response A">>
    /\ Len(aggregate_rankings) = 2
    /\ aggregate_rankings[1].model = label_to_model[2].value
    /\ aggregate_rankings[2].model = label_to_model[1].value
    /\ aggregate_rankings[1].average_rank = aggregate_rankings[2].average_rank

\* The title call has ended after a failure: there was no usable title
\* model, or the title query gave None, or it gave a response whose content
\* is None.
TitleFailure ==
    \/ EffectiveTitleModel(config) \in {None, <<>>}
    \/ title_call.outcome.kind # "ok"
    \/ title_call.outcome.response.content = None

\* C29: generate_conversation_title never raises, and it returns
\* "New Conversation" when there is no usable title model, when the title
\* query returns None and when the response has content None.
C29_TitleNeverRaises ==
    (title_call # Null /\ title_call.status = "done") =>
        /\ title_call.result.exc = NoExc
        /\ TitleFailure => title_call.result.value = NewConversation

\* The title call apart from a response with content None: it does not
\* raise and gives the default on the other failures.
C29_TitleDefaultOnNull ==
    (title_call # Null /\ title_call.status = "done"
        /\ ~(title_call.outcome.kind = "ok" /\ title_call.outcome.response.content = None)) =>
        /\ title_call.result.exc = NoExc
        /\ TitleFailure => title_call.result.value = NewConversation

\* The turns of a conversion as [role, text], whichever backend they are for.
GeminiTurns ==
    [i \in 1..Len(conversion.contents) |->
        [role |-> conversion.contents[i].role, text |-> conversion.contents[i].parts[1].text]]

AnthropicTurns ==
    [i \in 1..Len(conversion.converted) |->
        [role |-> conversion.converted[i].role, text |-> conversion.converted[i].content]]

\* The texts of all turns, one after the other.
AllText(turns) ==
    LET upto[k \in 0..Len(turns)] ==
            IF k = 0 THEN <<>> ELSE upto[k - 1] \o turns[k].text
    IN  upto[Len(turns)]

\* The message texts in a text: what is neither prefix nor separator.
MessageTexts(text) ==
    TokensAt(text, {i \in 1..Len(text) : text[i] \notin {SystemPrefix, TurnSeparator}})

\* The turns are a conversion of the messages in which assistant messages
\* have the role reply and all others the role user.
WellConverted(turns, messages, reply) ==
    /\ \A i \in 1..(Len(turns) - 1) : turns[i].role # turns[i + 1].role
    /\ \A i \in 1..Len(turns) : turns[i].role \in {"user", reply}
    /\ MessageTexts(AllText(turns)) = [k \in 1..Len(messages) |-> ToString(k)]
    /\ \A k \in 1..Len(messages) :
          \E i \in 1..Len(turns) : \E p \in 1..Len(turns[i].text) :
              /\ turns[i].text[p] = ToString(k)
              /\ turns[i].role = IF messages[k].role = "assistant" THEN reply ELSE "user"
              /\ messages[k].role = "system"
                    => p > 1 /\ turns[i].text[p - 1] = SystemPrefix

Trimmed(text) ==
    LET solid == {i \in 1..Len(text) : text[i] # " "}
    IN  IF solid = {} THEN <<>>
        ELSE LET a == CHOOSE i \in solid : \A j \in solid : i <= j
                 b == CHOOSE i \in solid : \A j \in solid : j <= i
             IN  [k \in 1..(b - a + 1) |-> text[a + k - 1]]

\* The text before and the text after position c.
TextBefore(text, c) == [k \in 1..(c - 1) |-> text[k]]

TextAfter(text, c) == [k \in 1..(Len(text) - c) |-> text[c + k]]

\* C31: parse_model_spec gives a pair for every string. With a ":" in the
\* string the provider is the text before the first ":", trimmed and in
\* lower case, or openrouter when that is empty, and the model name is the
\* trimmed text after that ":"; without a ":" the provider is openrouter and
\* the model name is the whole trimmed string.
C31_ParseModelSpec ==
    (gateway # Null /\ gateway.status = "done") =>
        LET spec == gateway.model_spec
            colons == {i \in 1..Len(spec) : spec[i] = ":"}
        IN  IF colons = {}
            THEN /\ gateway.provider = <<"openrouter">>
                 /\ gateway.model_name = Trimmed(spec)
            ELSE LET c == CHOOSE i \in colons : \A j \in colons : i <= j
                     head == Trimmed(TextBefore(spec, c))
                 IN  /\ gateway.model_name = Trimmed(TextAfter(spec, c))
                     /\ IF head = <<>> THEN gateway.provider = <<"openrouter">>
                        ELSE /\ Len(gateway.provider) = Len(head)
                             /\ \A k \in 1..Len(head) :
                                   gateway.provider[k] =
                                       IF head[k] = "OpenAI" THEN "openai" ELSE head[k]

C31_Witness ==
    /\ gateway # Null
    /\ gateway.status = "done"
    /\ gateway.model_spec = <<"OpenAI", ":", "m", ":">>
    /\ gateway.provider = <<"openai">>
    /\ gateway.model_name = <<"m", ":">>

\* C32: when the text has the marker, every strict numbered entry that
\* stands anywhere after the first marker is in the parsed ranking, also an
\* entry that follows a second occurrence of the marker.
C32_WholeTextAfterMarker ==
    (Parsed /\ HasMarker(RankingText)) =>
        LET after == AfterFirstMarker(RankingText)
        IN  \A i \in 2..Len(after) :
                (IsLabel(after[i]) /\ after[i - 1] \in NumberTokens) =>
                    \E k \in 1..Len(stage2_results[1].parsed_ranking) :
                        stage2_results[1].parsed_ranking[k] = after[i]

\* The Stage 2 call of a model.
Stage2Call(model) ==
    calls[CHOOSE i \in Range(Tasks("stage2")) : calls[i].model = model]

\* The positions in Stage1Results of the survivors whose Stage 2 query
\* returned a response.
Stage2Answered ==
    {k \in 1..Len(stage1_results) : Stage2Call(stage1_results[k].model).result.value # Null}

\* C33: Stage2Results holds one entry for each model of Stage1Results whose
\* Stage 2 query returned a response that is not None, in the order of
\* Stage1Results, and no other entry; the entry carries the text of that
\* response and the ranking parsed from it, which may be empty; the stage2
\* runtime failures name the other survivors only, so none names a model
\* whose response had no label.
C33_Stage2Entries ==
    (pc = "Aggregating" /\ phase = "start") =>
        /\ Models(stage2_results) = TokensAt(Models(stage1_results), Stage2Answered)
        /\ \A i \in 1..Len(stage2_results) :
              /\ stage2_results[i].ranking
                    = Stage2Call(stage2_results[i].model).result.value.content
              /\ stage2_results[i].parsed_ranking
                    = parse_ranking_from_text(stage2_results[i].ranking)
        /\ \A k \in 1..Len(stage1_results) :
              (\E f \in Range(runtime_failures) :
                    f.stage = "stage2" /\ f.model_spec = stage1_results[k].model)
                  <=> k \notin Stage2Answered

C33_Witness ==
    /\ pc = "Aggregating"
    /\ phase = "start"
    /\ Len(stage1_results) = 3
    /\ Len(stage2_results) = 2
    /\ stage2_results[1].model = stage1_results[1].model
    /\ stage2_results[1].ranking = <<"prose">>
    /\ stage2_results[1].parsed_ranking = <<>>
    /\ stage2_results[2].model = stage1_results[3].model
    /\ stage2_results[2].parsed_ranking = <<"Response B", "Response A">>
    /\ SelectSeq(runtime_failures, LAMBDA f : f.stage = "stage2")
          = <<Stage2Record(stage1_results[2].model)>>

\* C34: in the effective configuration the chairman is None exactly when
\* council_models is empty, and a chairman that is not None is one of the
\* council_models.
C34_ChairmanInCouncil ==
    cfg # Null =>
        /\ cfg.chairman_model = None <=> cfg.council_models = <<>>
        /\ cfg.chairman_model # None =>
              \E i \in 1..Len(cfg.council_models) :
                  cfg.council_models[i] = cfg.chairman_model

C34_Witness ==
    /\ cfg # Null
    /\ config.LLM_CHAIRMAN_MODEL = <<" ", "openai", ":", "gpt", " ">>
    /\ Len(cfg.council_models) = 2
    /\ cfg.council_models[1] = <<"vendor/model">>
    /\ cfg.chairman_model = <<"openai", ":", "gpt">>
    /\ cfg.chairman_model = cfg.council_models[2]

\* C35: for every snapshot of the settings, each model that
\* load_council_config keeps in council_models names a provider of
\* PROVIDERS all of whose adapter settings are set, so a query of an
\* effective model reaches its adapter and the adapter does not raise
\* ConfigError: it gives a response or fails in the request.
C35_ResolverAgreesWithGateway ==
    /\ cfg # Null =>
          \A i \in 1..Len(cfg.council_models) :
              \E p \in PROVIDERS :
                  /\ parse_model_spec(cfg.council_models[i])[1] = <<p>>
                  /\ AdapterSettings(p) \subseteq config.settings
    /\ (cfg # Null /\ gateway # Null) =>
          /\ gateway.outcome.kind \in {"ok", "HTTPStatusError", "Exception"}
          /\ gateway.result.diagnostic \notin {"unknown provider", "Config error"}

C35_Witness ==
    /\ cfg # Null
    /\ gateway # Null
    /\ gateway.model_spec = <<"anthropic", ":", "m">>
    /\ gateway.outcome.kind = "ok"
    /\ "OPENAI_API_KEY" \notin config.settings

\* The runtime failures are one record at most for a model spec, a stage2
\* record names a model of Stage1Results and a stage1 record a model of
\* neither result list.
OneFailurePerModel ==
    /\ \A i, j \in 1..Len(runtime_failures) :
          runtime_failures[i].model_spec = runtime_failures[j].model_spec => i = j
    /\ \A i \in 1..Len(runtime_failures) :
          LET f == runtime_failures[i]
          IN  /\ f.stage \in {"stage1", "stage2"}
              /\ f.stage = "stage2" => f.model_spec \in Range(Models(stage1_results))
              /\ f.stage = "stage1" =>
                    /\ f.model_spec \notin Range(Models(stage1_results))
                    /\ f.model_spec \notin Range(Models(stage2_results))

\* C36: in every run each model spec has at most one runtime failure
\* record, of stage1 or of stage2 and never of both; a model with a stage2
\* record is in Stage1Results, a model with a stage1 record is neither in
\* Stage1Results nor in Stage2Results.
C36_OneRuntimeFailure == OneFailurePerModel

\* The same for the runs of a council that names no model twice.
C36_UniqueCouncilOneFailure ==
    (cfg # Null /\ \A i, j \in 1..Len(cfg.council_models) :
                      cfg.council_models[i] = cfg.council_models[j] => i = j)
        => OneFailurePerModel

\* C37: in the aggregate no model has two entries and every model is one
\* of Stage1Results; rankings_count is at most the number of Stage2Results
\* and the average position is at least 1 and at most the number of labels.
C37_AggregateBounds ==
    Aggregated =>
        /\ \A i, j \in 1..Len(aggregate_rankings) :
              aggregate_rankings[i].model = aggregate_rankings[j].model => i = j
        /\ \A i \in 1..Len(aggregate_rankings) :
              /\ \E k \in 1..Len(stage1_results) :
                    stage1_results[k].model = aggregate_rankings[i].model
              /\ aggregate_rankings[i].rankings_count <= Len(stage2_results)
              /\ aggregate_rankings[i].average_rank >= 100
              /\ aggregate_rankings[i].average_rank <= 100 * Len(label_to_model)

\* The part of it about the models: one entry at most for a model, and
\* only models of Stage1Results, each with an average of 1 or more.
C37_AggregateModels ==
    Aggregated =>
        /\ \A i, j \in 1..Len(aggregate_rankings) :
              aggregate_rankings[i].model = aggregate_rankings[j].model => i = j
        /\ \A i \in 1..Len(aggregate_rankings) :
              /\ \E k \in 1..Len(stage1_results) :
                    stage1_results[k].model = aggregate_rankings[i].model
              /\ aggregate_rankings[i].average_rank >= 100

\* The ranking prompt for a question and a list of response texts.
AnonymousPrompt(question, texts) ==
    [kind |-> "ranking", question |-> question,
     responses |-> [i \in 1..Len(texts) |-> [label |-> Letters[i], response |-> texts[i]]]]

\* C38: the ranking prompt sent in Stage 2 is fixed by the question and
\* the ordered response texts of Stage1Results alone, so runs that agree on
\* these and differ in the models behind the texts send the same prompt;
\* it holds the question, and for each response a label and the text,
\* and no model spec.
C38_AnonymousPrompt ==
    Stage2Dispatched =>
        \A i \in Range(Tasks("stage2")) :
            /\ calls[i].prompt =
                  AnonymousPrompt(UserQuery,
                      [k \in 1..Len(stage1_results) |-> stage1_results[k].response])
            /\ DOMAIN calls[i].prompt = {"kind", "question", "responses"}
            /\ \A k \in 1..Len(calls[i].prompt.responses) :
                  /\ DOMAIN calls[i].prompt.responses[k] = {"label", "response"}
                  /\ calls[i].prompt.responses[k].label \in Range(Letters)
                  /\ calls[i].prompt.responses[k].response = stage1_results[k].response

C38_Witness ==
    /\ Stage2Dispatched
    /\ Len(stage1_results) = 2
    /\ stage1_results[1].model = <<"openai", ":", "gpt">>
    /\ stage1_results[2].model = <<"vendor/model">>
    /\ stage1_results[1].response # stage1_results[2].response
    /\ Len(Tasks("stage2")) = 2

\* Every query issued so far has completed.
AllCallsCompleted == \A i \in 1..Len(calls) : calls[i].status = "done"

\* The calls issued: one at most for each effective model in Stage 1, one
\* at most for each model of Stage1Results in Stage 2, one at most in
\* Stage 3.
CallBudget ==
    /\ cfg = Null => calls = <<>>
    /\ cfg # Null =>
          /\ Len(Tasks("stage1")) <= Len(cfg.council_models)
          /\ Len(Tasks("stage2")) <= Len(stage1_results)
          /\ Len(Tasks("stage3")) <= 1

\* run_full_council has been entered and has not returned.
Running == pc \notin {"Idle", "Done", "Aborted"}

\* C39: the run issues one Stage 1 call at most for each effective model,
\* one Stage 2 call at most for each Stage 1 survivor and one Stage 3 call
\* at most; and when every call issued has completed, a run that is neither
\* Done nor Aborted has a next step to take, so that it ends in Done or in
\* Aborted.
C39_Terminates ==
    /\ CallBudget
    /\ (AllCallsCompleted /\ Running) => ENABLED Next

\* The failure records of the resolver and those of the run.
ConfigErrorTypes == {"config_error", "invalid_chairman"}

OnlyRuntimeRecords(failures) ==
    \A i \in 1..Len(failures) : failures[i].error_type = "runtime_failure"

OnlyConfigRecords(failures) ==
    \A i \in 1..Len(failures) : failures[i].error_type \in ConfigErrorTypes

\* The state side of the frame: what the run holds and what it returns.
ConfigFrame ==
    /\ OnlyRuntimeRecords(runtime_failures)
    /\ cfg # Null =>
          /\ cfg = load_council_config(config)
          /\ OnlyConfigRecords(cfg.failures)
    /\ ret # Null =>
          /\ ret.metadata.failures = load_council_config(config).failures
          /\ ret.metadata.runtime_failures = runtime_failures
          /\ OnlyRuntimeRecords(ret.metadata.runtime_failures)

\* C40: a run leaves the configuration untouched. The settings never
\* change and, once loaded, the resolved configuration never changes; the
\* config failures in the returned metadata are the failures
\* load_council_config computed, record for record; and the runtime
\* failures are a list of their own that holds runtime_failure records only
\* (the config failures hold none).
C40_ConfigurationFrame ==
    /\ []ConfigFrame
    /\ [][/\ config' = config
          /\ cfg # Null => cfg' = cfg
          /\ ret # Null => ret' = ret]_vars

C40_Witness ==
    /\ pc = "Done"
    /\ cfg.failures # <<>>
    /\ runtime_failures # <<>>
    /\ ret.metadata.failures = cfg.failures
    /\ ret.metadata.runtime_failures = runtime_failures

====
